---- MODULE Spec2Model ----
(***************************************************************************)
(* Lesson (multi-screen) scanning of the Inspark accessibility extension.  *)
(*                                                                         *)
(* The content script (extension/src/report-generator.js, lines 436-907)   *)
(* owns the session: lessonScanActive, currentScreen, screenData, the      *)
(* URL/title baseline and the debounce timer.  The background service      *)
(* worker (extension/src/background.js) forwards the popup's commands,     *)
(* mirrors the session in lessonScanState and persists it in               *)
(* chrome.storage.local.  The audit engine (window.axe) is a black box: a  *)
(* started run calls back later with an error or with a violation list.    *)
(*                                                                         *)
(* Specifications:                                                         *)
(*   Spec          the content script and its page; commands reach its     *)
(*                 onMessage listener directly                             *)
(*   SpecBg        the content script behind the background worker         *)
(*   SpecNormalize processScanResults as a function of its inputs          *)
(*   SpecRead      the state reads during the life of a session            *)
(*   SpecSuggest   the AI suggestion requests                              *)
(*   SpecOutbound  what leaves the extension and what the popup stores     *)
(*   SpecPopup     the popup as the observer of lesson scans               *)
(*   SpecPageScan  the page scan of content.js                             *)
(*   SpecStore     the content script on a page whose title changes        *)
(*   SpecBaseline  the content script on a page that navigates only before *)
(*                 the first scan                                          *)
(*   SpecScreens   the popup showing a lesson scan screen by screen        *)
(*   SpecInject    the injection of the content script into the tab        *)
(*   SpecReload    lesson scans through the background in a reloading tab  *)
(*   SpecQuick     quick scans while lesson scans come and go              *)
(***************************************************************************)
EXTENDS Integers, Sequences, FiniteSets, Bags, TLC

(***************************************************************************)
(* Bounds of the model.                                                    *)
(***************************************************************************)
TickMs == 500
MaxTicks == 4
MaxScreen == 3
MaxPending == 2
MaxSessions == 2
MaxEvents == 2
MaxTicksBg == 2
MaxViolations == 2
MaxCalls == 2
ExampleMaxScreens == 2
ExampleMaxIssues == 1
MaxMarkup == 100
MaxPageScans == 2
MaxLive == 1
MaxAnalyses == 1
MaxLoads == 2
MaxInjections == 2

(***************************************************************************)
(* Program constants.                                                      *)
(***************************************************************************)
UrlChangeDelay == 1000
TitleChangeDelay == 1000
ContentChangeDelay == 2000
ElementLimit == 80

Urls == {"u1", "u2"}
Titles == {"t1", "t2"}
NoTimer == -1

Max(a, b) == IF a >= b THEN a ELSE b

(***************************************************************************)
(* Raw audit results: a violation list as window.axe hands it to the       *)
(* callback.  A violation is [id, impact, nodes]; a node is [target], the  *)
(* list of selectors axe gives for the element.                            *)
(***************************************************************************)
Impacts == {"critical", "serious", "moderate", "minor"}

\* markup of n characters (node.html, el.outerHTML), as a sequence of characters
Markup(n) == [i \in 1..n |-> "x"]

HtmlNode(target, html) == [target |-> target, html |-> html]
\* a node with short markup
Node(target) == HtmlNode(target, Markup(1))
Violation(id, impact, nodes) == [id |-> id, impact |-> impact, nodes |-> nodes]

\* the violation lists the audits of Spec and SpecBg answer with
AxeViolationLists ==
  { << >>,
    << Violation("image-alt", "critical", << Node(<<"img">>) >>),
       Violation("region", "minor", << Node(<<"div">>) >>) >>,
    << Violation("label", "serious", << Node(<<"form", "input">>), Node(<<"input">>) >>) >> }

\* What the callback of window.axe.run receives: (err, results)
AxeOutcomes ==
  {[err |-> TRUE, violations |-> << >>]}
    \cup {[err |-> FALSE, violations |-> v] : v \in AxeViolationLists}

(***************************************************************************)
(* Results processing (report-generator.js, 724-815).                      *)
(***************************************************************************)
\* Array.prototype.join
RECURSIVE Join(_, _)
Join(parts, sep) ==
  IF Len(parts) = 0 THEN ""
  ELSE IF Len(parts) = 1 THEN parts[1]
  ELSE parts[1] \o sep \o Join(Tail(parts), sep)

mapSeverity(impact) ==
  IF impact \in {"critical", "serious", "moderate", "minor"} THEN impact ELSE "moderate"

\* the template literal of issue.id; t is Date.now()
IssueId(violation, node, screenNumber, t) ==
  violation.id \o "-" \o Join(node.target, "-") \o "-" \o ToString(screenNumber)
    \o "-" \o ToString(t)

\* The issue built for one node of one violation.
MakeIssue(violation, node, screenInfo, t) ==
  [ id |-> IssueId(violation, node, screenInfo.screenNumber, t),
    severity |-> mapSeverity(violation.impact),
    type |-> violation.id,
    element |-> node.html,
    selector |-> Join(node.target, ", "),
    screenNumber |-> screenInfo.screenNumber ]

RECURSIVE NodeIssues(_, _, _, _)
NodeIssues(violation, nodes, screenInfo, t) ==
  IF nodes = << >> THEN << >>
  ELSE << MakeIssue(violation, Head(nodes), screenInfo, t) >>
         \o NodeIssues(violation, Tail(nodes), screenInfo, t)

\* a filter that lets every violation through
KeepsEveryViolation(violation, criticalOnly) == TRUE

\* the filter at the head of the forEach body of processScanResults
KeepsViolation(violation, criticalOnly) ==
  ~(criticalOnly /\ violation.impact \notin {"critical", "serious"})

RECURSIVE processScanResults(_, _, _, _)
processScanResults(violations, screenInfo, criticalOnly, t) ==
  IF violations = << >> THEN << >>
  ELSE (IF KeepsViolation(Head(violations), criticalOnly)
          THEN NodeIssues(Head(violations), Head(violations).nodes, screenInfo, t)
          ELSE << >>)
       \o processScanResults(Tail(violations), screenInfo, criticalOnly, t)

\* What the session state of this model keeps of an issue: the fields the
\* session is asked about.  The id carries Date.now(); it is examined in
\* SpecNormalize.
RECURSIVE Ledger(_)
Ledger(issues) ==
  IF issues = << >> THEN << >>
  ELSE << [severity |-> Head(issues).severity, type |-> Head(issues).type,
           selector |-> Head(issues).selector,
           screenNumber |-> Head(issues).screenNumber] >> \o Ledger(Tail(issues))

(***************************************************************************)
(* State.                                                                  *)
(***************************************************************************)
VARIABLES
  href,                \* window.location.href of the scanned page
  docTitle,            \* document.title of the scanned page
  axeLoaded,           \* !!window.axe
  now,                 \* the clock (Date.now()), in milliseconds
  lessonScanActive,    \* content script: let lessonScanActive
  currentScreen,       \* content script: let currentScreen
  screenData,          \* content script: let screenData
  lastUrl,             \* content script: let lastUrl (module level)
  lastTitle,           \* content script: let lastTitle
  screenChangeTimeout, \* content script: milliseconds left of the pending timer, or NoTimer
  observers,           \* number of startScreenMonitoring calls whose observers are registered
  scansPending,        \* bag of window.axe.run calls that have not called back
  sessionNo,           \* number of startLessonScan commands the content script handled
  viaBackground,       \* whether commands and notifications pass through the background
  events,              \* chrome.runtime.sendMessage notifications the background has not handled
  pcStart,             \* progress of the startLessonScan command
  pcStop,              \* progress of the stopLessonScan command
  startOk,             \* the success flag of the start response in flight
  lessonScanState,     \* background: let lessonScanState
  storage,             \* chrome.storage.local, the lesson-scan keys
  burst,               \* history: the kinds of the triggers since the debounce timer was last idle
  stopRun,             \* history: completed stop commands in a row, and the snapshot after the first
  norm,                \* SpecNormalize: the inputs and the result of processScanResults
  gateway,             \* SpecSuggest: the popup's suggestion panel and the getAiSuggestion calls
  pageScan,            \* SpecPageScan: the page scan of content.js
  injection,           \* SpecInject, SpecReload: the content script in the tab and its injection
  log                  \* history: what the last step did

pageVars == <<href, docTitle, axeLoaded>>
sessionVars == <<lessonScanActive, currentScreen, screenData, sessionNo>>
detectorVars == <<lastUrl, lastTitle, screenChangeTimeout, observers>>
bgVars == <<lessonScanState, storage>>
cmdVars == <<pcStart, pcStop, startOk>>
fixedVars == <<viaBackground, norm, gateway, pageScan, injection>>
vars == <<href, docTitle, axeLoaded, now, lessonScanActive, currentScreen, screenData,
          lastUrl, lastTitle, screenChangeTimeout, observers, scansPending, sessionNo,
          viaBackground, events, pcStart, pcStop, startOk, lessonScanState, storage,
          burst, stopRun, norm, gateway, pageScan, injection, log>>

Unset == << >>
Stored(v) == << v >>

NumPending == BagCardinality(scansPending)

NoRun == [n |-> 0, snap |-> << >>]

(***************************************************************************)
(* Content script: helpers.                                                *)
(***************************************************************************)
getScreenInfo == [screenNumber |-> currentScreen]

\* { ...screenInfo, issues }; title, url, timestamp and selector of screenInfo
\* are not kept in this model
ScreenRecord(screenInfo, issues) ==
  [screenNumber |-> screenInfo.screenNumber, issues |-> Ledger(issues)]

\* screenData.findIndex(s => s.screenNumber === n); 0 stands for -1
RECURSIVE FindIndexFrom(_, _, _)
FindIndexFrom(data, n, i) ==
  IF i > Len(data) THEN 0
  ELSE IF data[i].screenNumber = n THEN i
  ELSE FindIndexFrom(data, n, i + 1)

findIndex(data, n) == FindIndexFrom(data, n, 1)

RECURSIVE getAllLessonIssuesOf(_)
getAllLessonIssuesOf(data) ==
  IF data = << >> THEN << >>
  ELSE Head(data).issues \o getAllLessonIssuesOf(Tail(data))

getAllLessonIssues == getAllLessonIssuesOf(screenData)

CountSeverity(issues, sev) ==
  Cardinality({i \in 1..Len(issues) : issues[i].severity = sev})

\* Math.round(n / d * 10) / 10, in tenths
RoundTenths(n, d) == (20 * n + d) \div (2 * d)

generateLessonSummary ==
  LET allIssues == getAllLessonIssues IN
  [ totalScreens |-> currentScreen,
    totalIssues |-> Len(allIssues),
    severityCounts |-> [sev \in Impacts |-> CountSeverity(allIssues, sev)],
    averageIssuesPerScreen |-> RoundTenths(Len(allIssues), currentScreen),
    screenData |-> [i \in 1..Len(screenData) |->
                      [screenNumber |-> screenData[i].screenNumber,
                       issuesCount |-> Len(screenData[i].issues)]] ]

\* chrome.runtime.sendMessage of the content script
CanSend(msgs) == viaBackground => Len(events) + Len(msgs) <= MaxEvents
Sent(msgs) == IF viaBackground THEN events \o msgs ELSE events

\* where a command stands when the content script's listener receives it, and
\* where it stands once sendResponse was called
AtContent == IF viaBackground THEN "toContent" ELSE "idle"
Responded == IF viaBackground THEN "responding" ELSE "idle"

(***************************************************************************)
(* The page: URL, title and DOM changes, and the observers that            *)
(* startScreenMonitoring registered (they are never disconnected).         *)
(***************************************************************************)
\* The timer after the observers' callbacks for one batch of mutation records
\* ran.  Callbacks run in registration order: URL, title, DOM observer.
\*   urlChanged: location.href differs from the URL observer's lastUrl closure
\*   titleStale: document.title differs from the module's lastTitle
\*   significant: a SECTION, ARTICLE or DIV with children was added
\* the triggers of the burst that a pending timer belongs to: "nav" for a
\* change of the URL or of the title, "dom" for nodes added to the page
BurstAfter(timer, kinds) == IF timer = NoTimer THEN {} ELSE burst \cup kinds

TimerAfterMutation(urlChanged, titleStale, significant) ==
  IF observers = 0 THEN screenChangeTimeout
  ELSE IF significant THEN ContentChangeDelay
  ELSE IF titleStale THEN TitleChangeDelay
  ELSE IF urlChanged THEN UrlChangeDelay
  ELSE screenChangeTimeout

\* A single-page navigation: the URL changes and the page renders new nodes
\* under document.body.
UrlChange(u, significant) ==
  /\ u # href
  /\ href' = u
  /\ screenChangeTimeout' = TimerAfterMutation(TRUE, FALSE, significant)
  /\ log' = [op |-> "trigger", kind |-> "url"]
  /\ stopRun' = NoRun
  /\ UNCHANGED <<docTitle, axeLoaded, now, sessionVars, lastUrl, lastTitle, observers,
                 scansPending, events, cmdVars, bgVars, fixedVars>>
  /\ burst' = BurstAfter(screenChangeTimeout', IF significant THEN {"nav", "dom"} ELSE {"nav"})

\* document.title changes: a childList mutation under <title>
TitleMutation(t) ==
  /\ t # docTitle
  /\ docTitle' = t
  /\ screenChangeTimeout' = TimerAfterMutation(FALSE, t # lastTitle, FALSE)
  /\ log' = [op |-> "trigger", kind |-> "title"]
  /\ stopRun' = NoRun
  /\ UNCHANGED <<href, axeLoaded, now, sessionVars, lastUrl, lastTitle, observers,
                 scansPending, events, cmdVars, bgVars, fixedVars>>
  /\ burst' = BurstAfter(screenChangeTimeout', {"nav"})

\* nodes are added under document.body, a SECTION, ARTICLE or DIV with
\* children among them; the URL and the title stay
DomMutation ==
  /\ screenChangeTimeout' = TimerAfterMutation(FALSE, FALSE, TRUE)
  /\ log' = [op |-> "trigger", kind |-> "dom"]
  /\ stopRun' = NoRun
  /\ UNCHANGED <<pageVars, now, sessionVars, lastUrl, lastTitle, observers,
                 scansPending, events, cmdVars, bgVars, fixedVars>>
  /\ burst' = BurstAfter(screenChangeTimeout', {"dom"})

\* Time passes; a timer that is due runs before the clock moves on.
Tick ==
  /\ now + TickMs <= MaxTicks * TickMs
  /\ screenChangeTimeout # 0
  /\ now' = now + TickMs
  /\ screenChangeTimeout' =
       IF screenChangeTimeout = NoTimer THEN NoTimer
       ELSE Max(0, screenChangeTimeout - TickMs)
  /\ log' = [op |-> "tick"]
  /\ UNCHANGED <<pageVars, sessionVars, lastUrl, lastTitle, observers, scansPending,
                 events, cmdVars, bgVars, stopRun, fixedVars, burst>>


(***************************************************************************)
(* Content script: operations (report-generator.js, 450-465 and 574-721).  *)
(***************************************************************************)
Scan(kind, sess) == [kind |-> kind, sess |-> sess]

Snapshot ==
  [active |-> lessonScanActive, currentScreen |-> currentScreen, screenData |-> screenData,
   background |-> lessonScanState, stored |-> storage]

\* a timer callback that finds no screen change
detectScreenChangeBlind ==
  /\ screenChangeTimeout = 0
  /\ screenChangeTimeout' = NoTimer
  /\ log' = [op |-> "timer", changed |-> FALSE, scan |-> FALSE, burst |-> burst]
  /\ burst' = {}
  /\ stopRun' = NoRun
  /\ UNCHANGED <<pageVars, now, sessionVars, lastUrl, lastTitle, observers, scansPending,
                 events, cmdVars, bgVars, fixedVars>>

\* The timer callback.  scanCurrentScreen is called and not awaited; it calls
\* window.axe.run at once when the session is active and axe is loaded.
detectScreenChange ==
  /\ screenChangeTimeout = 0
  /\ screenChangeTimeout' = NoTimer
  /\ IF href # lastUrl \/ docTitle # lastTitle
       THEN /\ lastUrl' = href
            /\ lastTitle' = docTitle
            /\ IF lessonScanActive
                 THEN /\ currentScreen < MaxScreen
                      /\ currentScreen' = currentScreen + 1
                      /\ IF axeLoaded
                           THEN /\ NumPending < MaxPending
                                /\ scansPending' =
                                     scansPending (+) SetToBag({Scan("change", sessionNo)})
                           ELSE UNCHANGED scansPending
                      /\ log' = [op |-> "timer", changed |-> TRUE, scan |-> axeLoaded,
                                 burst |-> burst]
                 ELSE /\ UNCHANGED <<currentScreen, scansPending>>
                      /\ log' = [op |-> "timer", changed |-> FALSE, scan |-> FALSE,
                                 burst |-> burst]
       ELSE /\ UNCHANGED <<lastUrl, lastTitle, currentScreen, scansPending>>
            /\ log' = [op |-> "timer", changed |-> FALSE, scan |-> FALSE, burst |-> burst]
  /\ stopRun' = NoRun
  /\ UNCHANGED <<pageVars, now, lessonScanActive, screenData, sessionNo, observers,
                 events, cmdVars, bgVars, fixedVars>>
  /\ burst' = {}

StartedMsg(data, screen) ==
  [action |-> "lessonScanStarted", screenData |-> data, currentScreen |-> screen]

\* a progress message that carries the records as they were before the store
ProgressMsgBeforeStore(data, issues) ==
  [action |-> "lessonScanProgress", screenNumber |-> currentScreen,
   issuesCount |-> Len(issues), screenData |-> screenData]

ProgressMsg(data, issues) ==
  [action |-> "lessonScanProgress", screenNumber |-> currentScreen,
   issuesCount |-> Len(issues), screenData |-> data]

CompleteMsg ==
  [action |-> "lessonScanComplete", results |-> getAllLessonIssues,
   screenData |-> screenData, totalScreens |-> currentScreen,
   summary |-> generateLessonSummary]

\* handleStartLessonScan up to the await of scanCurrentScreen.  Without
\* window.axe scanCurrentScreen returns at once and the handler runs to its
\* end: lessonScanStarted is sent and the response is success: true.
ContentStartLessonScan ==
  /\ pcStart = AtContent
  /\ sessionNo < MaxSessions
  /\ lessonScanActive' = TRUE
  /\ currentScreen' = 1
  /\ screenData' = << >>
  /\ sessionNo' = sessionNo + 1
  /\ observers' = observers + 1
  /\ IF axeLoaded
       THEN /\ NumPending < MaxPending
            /\ scansPending' = scansPending (+) SetToBag({Scan("start", sessionNo + 1)})
            /\ pcStart' = "awaitScan"
            /\ UNCHANGED <<events, startOk>>
            /\ log' = [op |-> "contentStart", wasActive |-> lessonScanActive,
                       had |-> screenData, axe |-> TRUE, sent |-> << >>,
                       responded |-> FALSE, success |-> FALSE]
       ELSE /\ CanSend(<< StartedMsg(<< >>, 1) >>)
            /\ events' = Sent(<< StartedMsg(<< >>, 1) >>)
            /\ pcStart' = Responded
            /\ startOk' = TRUE
            /\ UNCHANGED scansPending
            /\ log' = [op |-> "contentStart", wasActive |-> lessonScanActive,
                       had |-> screenData, axe |-> FALSE,
                       sent |-> << StartedMsg(<< >>, 1) >>,
                       responded |-> TRUE, success |-> TRUE]
  /\ stopRun' = NoRun
  /\ UNCHANGED <<pageVars, now, lastUrl, lastTitle, screenChangeTimeout, pcStop, bgVars,
                 fixedVars, burst>>

\* a store that always pushes the record
StoreScreenAppending(data, rec) == Append(data, rec)

\* the body of the axe callback that stores the screen
StoreScreen(data, rec) ==
  LET existingScreenIndex == findIndex(data, rec.screenNumber) IN
  IF existingScreenIndex > 0
    THEN [data EXCEPT ![existingScreenIndex] = rec]
    ELSE Append(data, rec)

\* The callback of window.axe.run in scanCurrentScreen; for the scan of
\* handleStartLessonScan also the rest of that handler, which resolve() resumes.
AxeCallback(scan, outcome) ==
  /\ scan \in BagToSet(scansPending)
  /\ scansPending' = scansPending (-) SetToBag({scan})
  /\ LET screenInfo == getScreenInfo
         issues == processScanResults(outcome.violations, screenInfo, TRUE, now)
         data == IF outcome.err THEN screenData
                 ELSE StoreScreen(screenData, ScreenRecord(screenInfo, issues))
         progress == IF outcome.err THEN << >> ELSE << ProgressMsg(data, issues) >>
         started == IF scan.kind = "start" THEN << StartedMsg(data, currentScreen) >>
                    ELSE << >>
     IN /\ CanSend(progress \o started)
        /\ screenData' = data
        /\ events' = Sent(progress \o started)
        /\ log' = [op |-> "axeCallback", scan |-> scan, raw |-> outcome,
                   wasActive |-> lessonScanActive, stored |-> ~outcome.err,
                   replaced |-> ~outcome.err /\ findIndex(screenData, currentScreen) > 0,
                   before |-> Len(screenData),
                   sent |-> progress \o started]
  /\ IF scan.kind = "start"
       THEN pcStart' = Responded /\ startOk' = TRUE
       ELSE UNCHANGED <<pcStart, startOk>>
  /\ stopRun' = NoRun
  /\ UNCHANGED <<pageVars, now, lessonScanActive, currentScreen, sessionNo, detectorVars,
                 pcStop, bgVars, fixedVars, burst>>

\* handleStopLessonScan with stopScreenMonitoring
ContentStopLessonScan ==
  /\ pcStop = AtContent
  /\ CanSend(<< CompleteMsg >>)
  /\ lessonScanActive' = FALSE
  /\ screenChangeTimeout' = NoTimer
  /\ events' = Sent(<< CompleteMsg >>)
  /\ pcStop' = Responded
  /\ log' = [op |-> "contentStop", wasActive |-> lessonScanActive,
             timer |-> screenChangeTimeout, sent |-> << CompleteMsg >>]
  /\ UNCHANGED <<pageVars, now, currentScreen, screenData, sessionNo, lastUrl, lastTitle,
                 observers, scansPending, pcStart, startOk, bgVars, stopRun, fixedVars>>
  /\ burst' = {}

(***************************************************************************)
(* Spec: the content script and its page.                                  *)
(***************************************************************************)
InitPage ==
  /\ href = "u1"
  /\ docTitle = "t1"
  /\ axeLoaded \in BOOLEAN
  /\ now = 0

InitContent ==
  /\ lessonScanActive = FALSE
  /\ currentScreen = 1
  /\ screenData = << >>
  /\ lastUrl = href
  /\ lastTitle = docTitle
  /\ screenChangeTimeout = NoTimer
  /\ burst = {}
  /\ observers = 0
  /\ scansPending = EmptyBag
  /\ sessionNo = 0

InitBackground ==
  /\ events = << >>
  /\ pcStart = "idle"
  /\ pcStop = "idle"
  /\ startOk = FALSE
  /\ lessonScanState = [isActive |-> FALSE, startTime |-> -1, currentScreen |-> 0,
                        screenData |-> << >>]
  /\ storage = [lastLessonScanResults |-> Unset, lastLessonScanScreenData |-> Unset,
                lastLessonScanSummary |-> Unset, lastLessonScanTime |-> Unset,
                lastLessonScanInfo |-> Unset, lastQuickScanResults |-> Unset]
  /\ stopRun = NoRun
  /\ log = [op |-> "init"]

Init ==
  /\ InitPage
  /\ InitContent
  /\ InitBackground
  /\ viaBackground = FALSE
  /\ norm = << >>
  /\ gateway = << >>
  /\ pageScan = << >>
  /\ injection = << >>

Next ==
  \/ \E u \in Urls, significant \in BOOLEAN : UrlChange(u, significant)
  \/ \E t \in Titles : TitleMutation(t)
  \/ DomMutation
  \/ Tick
  \/ detectScreenChange
  \/ ContentStartLessonScan
  \/ \E scan \in BagToSet(scansPending), outcome \in AxeOutcomes : AxeCallback(scan, outcome)
  \/ ContentStopLessonScan

Spec == Init /\ [][Next]_vars


(***************************************************************************)
(* Background service worker (background.js, 506-651).                     *)
(***************************************************************************)
\* a stop command has run to its end: the response and the lessonScanComplete
\* notification were both handled
StopRunAfter(run, snapshot) ==
  [n |-> IF run.n < 2 THEN run.n + 1 ELSE 2, snap |-> IF run.n = 0 THEN snapshot ELSE run.snap]

\* handleStartLessonScan up to the call of forwardToContentScript
BgStartLessonScan ==
  /\ viaBackground
  /\ pcStart = "idle"
  /\ pcStop = "idle"
  /\ sessionNo < MaxSessions
  /\ lessonScanState' = [isActive |-> TRUE, startTime |-> now, currentScreen |-> 0,
                         screenData |-> << >>]
  /\ pcStart' = "forwarding"
  /\ log' = [op |-> "bgStart", wasActive |-> lessonScanState.isActive,
             had |-> lessonScanState.screenData]
  /\ stopRun' = NoRun
  /\ UNCHANGED <<pageVars, now, sessionVars, detectorVars, scansPending, events, pcStop,
                 startOk, storage, fixedVars, burst>>

\* forwardToContentScript for startLessonScan: chrome.tabs.sendMessage is
\* called, or there is no active tab, the content script cannot be injected or
\* chrome.runtime.lastError is set, and the callback of handleStartLessonScan
\* runs with success: false
ForwardStart(delivered) ==
  /\ pcStart = "forwarding"
  /\ IF delivered
       THEN pcStart' = "toContent" /\ UNCHANGED lessonScanState
       ELSE /\ pcStart' = "idle"
            /\ lessonScanState' = [lessonScanState EXCEPT !.isActive = FALSE]
  /\ log' = [op |-> "forwardStart", delivered |-> delivered]
  /\ stopRun' = NoRun
  /\ UNCHANGED <<pageVars, now, sessionVars, detectorVars, scansPending, events, pcStop,
                 startOk, storage, fixedVars, burst>>

\* the callback of handleStartLessonScan on the content script's response
BgStartResponse ==
  /\ viaBackground
  /\ pcStart = "responding"
  /\ pcStart' = "idle"
  /\ lessonScanState' = IF startOk THEN lessonScanState
                        ELSE [lessonScanState EXCEPT !.isActive = FALSE]
  /\ log' = [op |-> "bgStartResponse", success |-> startOk]
  /\ stopRun' = NoRun
  /\ UNCHANGED <<pageVars, now, sessionVars, detectorVars, scansPending, events, pcStop,
                 startOk, storage, fixedVars, burst>>

\* handleStopLessonScan up to the call of forwardToContentScript
BgStopLessonScan ==
  /\ viaBackground
  /\ pcStop = "idle"
  /\ pcStart = "idle"
  /\ pcStop' = "forwarding"
  /\ log' = [op |-> "bgStop"]
  /\ UNCHANGED <<pageVars, now, sessionVars, detectorVars, scansPending, events, pcStart,
                 startOk, bgVars, stopRun, fixedVars, burst>>

\* forwardToContentScript for stopLessonScan; on a failure the callback of
\* handleStopLessonScan answers success: false and changes nothing
ForwardStop(delivered) ==
  /\ pcStop = "forwarding"
  /\ pcStop' = IF delivered THEN "toContent" ELSE "idle"
  /\ log' = [op |-> "forwardStop", delivered |-> delivered]
  /\ UNCHANGED <<pageVars, now, sessionVars, detectorVars, scansPending, events, pcStart,
                 startOk, bgVars, stopRun, fixedVars, burst>>

RECURSIVE SumIssues(_)
SumIssues(data) ==
  IF data = << >> THEN 0 ELSE Len(Head(data).issues) + SumIssues(Tail(data))

\* the callback of handleStopLessonScan up to the await of chrome.storage.local.set
BgStopResponse ==
  /\ viaBackground
  /\ pcStop = "responding"
  /\ storage' = [storage EXCEPT
       !.lastLessonScanResults = Stored(lessonScanState.screenData),
       !.lastLessonScanInfo = Stored([startTime |-> lessonScanState.startTime,
                                      endTime |-> now,
                                      totalScreens |-> lessonScanState.currentScreen,
                                      totalIssues |-> SumIssues(lessonScanState.screenData)])]
  /\ pcStop' = "stored"
  /\ log' = [op |-> "bgStopResponse"]
  /\ UNCHANGED <<pageVars, now, sessionVars, detectorVars, scansPending, events, pcStart,
                 startOk, lessonScanState, stopRun, fixedVars, burst>>

\* the rest of that callback, after the await
BgStopFinish ==
  /\ pcStop = "stored"
  /\ lessonScanState' = [lessonScanState EXCEPT !.isActive = FALSE]
  /\ pcStop' = "idle"
  /\ log' = [op |-> "bgStopFinish"]
  /\ UNCHANGED <<pageVars, now, sessionVars, detectorVars, scansPending, events, pcStart,
                 startOk, storage, fixedVars, burst>>
  /\ stopRun' = IF events = << >> THEN StopRunAfter(stopRun, Snapshot') ELSE stopRun

handleLessonScanStarted(request) ==
  /\ lessonScanState' = [lessonScanState EXCEPT
       !.currentScreen = IF request.currentScreen = 0 THEN 1 ELSE request.currentScreen,
       !.screenData = request.screenData]
  /\ UNCHANGED storage

handleLessonScanProgress(request) ==
  /\ lessonScanState' = [lessonScanState EXCEPT
       !.currentScreen = request.screenNumber,
       !.screenData = request.screenData]
  /\ UNCHANGED storage

handleLessonScanComplete(request) ==
  /\ lessonScanState' = [lessonScanState EXCEPT
       !.screenData = request.screenData,
       !.currentScreen = IF request.totalScreens = 0 THEN lessonScanState.currentScreen
                         ELSE request.totalScreens]
  /\ storage' = [storage EXCEPT
       !.lastLessonScanResults = Stored(request.results),
       !.lastLessonScanScreenData = Stored(request.screenData),
       !.lastLessonScanSummary = Stored(request.summary),
       !.lastLessonScanTime = Stored(now)]

\* chrome.runtime.onMessage of the background, for the notifications of the
\* content script
BgReceive ==
  /\ events # << >>
  /\ events' = Tail(events)
  /\ LET request == Head(events) IN
       /\ CASE request.action = "lessonScanStarted" -> handleLessonScanStarted(request)
            [] request.action = "lessonScanProgress" -> handleLessonScanProgress(request)
            [] request.action = "lessonScanComplete" -> handleLessonScanComplete(request)
       /\ log' = [op |-> "bgReceive", action |-> request.action]
       /\ UNCHANGED <<pageVars, now, sessionVars, detectorVars, scansPending, cmdVars,
                      fixedVars, burst>>
       /\ stopRun' = IF request.action # "lessonScanComplete" THEN NoRun
                     ELSE IF pcStop = "idle" /\ Tail(events) = << >>
                            THEN StopRunAfter(stopRun, Snapshot')
                     ELSE stopRun

(***************************************************************************)
(* SpecBg: the content script behind the background worker.  The page      *)
(* changes its title; an audit fails or reports AuditOfBg.                 *)
(***************************************************************************)
AuditOfBg ==
  << Violation("image-alt", "critical", << Node(<<"img">>) >>),
     Violation("region", "minor", << Node(<<"div">>) >>) >>

BgOutcomes == {[err |-> TRUE, violations |-> << >>], [err |-> FALSE, violations |-> AuditOfBg]}

\* the clock of SpecBg
BgTick ==
  /\ now < MaxTicksBg * TickMs
  /\ Tick

InitBg ==
  /\ InitPage
  /\ InitContent
  /\ InitBackground
  /\ viaBackground = TRUE
  /\ norm = << >>
  /\ gateway = << >>
  /\ pageScan = << >>
  /\ injection = << >>

NextBg ==
  \/ \E t \in Titles : TitleMutation(t)
  \/ BgTick
  \/ detectScreenChange
  \/ ContentStartLessonScan
  \/ \E scan \in BagToSet(scansPending), outcome \in BgOutcomes : AxeCallback(scan, outcome)
  \/ ContentStopLessonScan
  \/ BgStartLessonScan
  \/ \E delivered \in BOOLEAN : ForwardStart(delivered)
  \/ BgStartResponse
  \/ BgStopLessonScan
  \/ \E delivered \in BOOLEAN : ForwardStop(delivered)
  \/ BgStopResponse
  \/ BgStopFinish
  \/ BgReceive

SpecBg == InitBg /\ [][NextBg]_vars

(***************************************************************************)
(* SpecStore: the content script on a page whose screens differ in their   *)
(* title, over the time of one title change.  The sessions, the audits and *)
(* the store of their results are those of Spec.                           *)
(***************************************************************************)
NextStore ==
  \/ \E t \in Titles : TitleMutation(t)
  \/ BgTick
  \/ detectScreenChange
  \/ ContentStartLessonScan
  \/ \E scan \in BagToSet(scansPending), outcome \in AxeOutcomes : AxeCallback(scan, outcome)
  \/ ContentStopLessonScan

SpecStore == Init /\ [][NextStore]_vars

(***************************************************************************)
(* SpecRead: the state reads during the life of a session.  The popup      *)
(* starts and stops sessions through the background and reads the state of *)
(* the background (getLessonScanState) and of the content script           *)
(* (getCurrentLessonData) at any moment; the page stays as it is.          *)
(***************************************************************************)
\* a read that answers only while no command is in progress
GetLessonScanStateWhenIdle ==
  /\ log' = [op |-> "getLessonScanState",
             response |-> [success |-> pcStart = "idle" /\ pcStop = "idle",
                           state |-> lessonScanState]]
  /\ UNCHANGED <<pageVars, now, sessionVars, detectorVars, scansPending, events, cmdVars,
                 bgVars, stopRun, fixedVars, burst>>

\* case 'getLessonScanState' of the onMessage listener of the background
GetLessonScanState ==
  /\ log' = [op |-> "getLessonScanState",
             response |-> [success |-> TRUE, state |-> lessonScanState]]
  /\ UNCHANGED <<pageVars, now, sessionVars, detectorVars, scansPending, events, cmdVars,
                 bgVars, stopRun, fixedVars, burst>>

\* case 'getCurrentLessonData' of the onMessage listener of the content script
GetCurrentLessonData ==
  /\ log' = [op |-> "getCurrentLessonData",
             response |-> [success |-> TRUE, screenData |-> screenData,
                           currentScreen |-> currentScreen, isActive |-> lessonScanActive]]
  /\ UNCHANGED <<pageVars, now, sessionVars, detectorVars, scansPending, events, cmdVars,
                 bgVars, stopRun, fixedVars, burst>>

NextRead ==
  \/ BgStartLessonScan
  \/ \E delivered \in BOOLEAN : ForwardStart(delivered)
  \/ ContentStartLessonScan
  \/ \E scan \in BagToSet(scansPending), outcome \in BgOutcomes : AxeCallback(scan, outcome)
  \/ BgStartResponse
  \/ BgStopLessonScan
  \/ \E delivered \in BOOLEAN : ForwardStop(delivered)
  \/ ContentStopLessonScan
  \/ BgStopResponse
  \/ BgStopFinish
  \/ BgReceive
  \/ GetLessonScanState
  \/ GetCurrentLessonData

SpecRead == InitBg /\ [][NextRead]_vars

(***************************************************************************)
(* SpecNormalize: processScanResults applied, at the times the clock       *)
(* shows, to a raw result for a screen.                                    *)
(***************************************************************************)
NormViolations ==
  { Violation("image-alt", "critical", << Node(<<"img">>) >>),
    Violation("region", "minor", << Node(<<"div">>) >>),
    Violation("label", "serious", << Node(<<"form", "input">>), Node(<<"form", "input">>) >>),
    Violation("label", "serious", << Node(<<"form-input">>) >>),
    Violation("color-contrast", "moderate", << Node(<<"p">>) >>),
    Violation("html-has-lang", "serious", << HtmlNode(<<"html">>, Markup(MaxMarkup)) >>) }

RECURSIVE SeqsUpTo(_, _)
SeqsUpTo(S, n) ==
  IF n = 0 THEN { << >> }
  ELSE LET shorter == SeqsUpTo(S, n - 1)
       IN shorter \cup {Append(q, x) : q \in shorter, x \in S}

InitNormalize ==
  /\ InitPage
  /\ InitContent
  /\ InitBackground
  /\ viaBackground = FALSE
  /\ norm \in [ violations : SeqsUpTo(NormViolations, MaxViolations),
                screenNumber : 1..2,
                criticalOnly : BOOLEAN,
                calls : {0}, issues : {<< >>}, previous : {<< >>} ]
  /\ gateway = << >>
  /\ pageScan = << >>
  /\ injection = << >>

\* processScanResults(results, screenInfo, criticalOnly) is called
Normalize ==
  /\ norm.calls < 2
  /\ norm' = [norm EXCEPT
       !.calls = norm.calls + 1,
       !.previous = norm.issues,
       !.issues = processScanResults(norm.violations, [screenNumber |-> norm.screenNumber],
                                     norm.criticalOnly, now)]
  /\ log' = [op |-> "normalize"]
  /\ UNCHANGED <<pageVars, now, sessionVars, detectorVars, scansPending, events, cmdVars,
                 bgVars, stopRun, viaBackground, gateway, pageScan, injection, burst>>

NextNormalize ==
  \/ Normalize
  \/ Tick

SpecNormalize == InitNormalize /\ [][NextNormalize]_vars

(***************************************************************************)
(* SpecSuggest: AI suggestions.  The popup (popup.js, 336-434 and 936-1033) *)
(* asks the background (background.js, 654-744) for a suggestion for the   *)
(* issue whose detail it shows; ApiService.getAiSuggestion (api.js,        *)
(* 368-406) is the same request made by a direct caller.  The backend is a *)
(* black box: a fetch is rejected, or resolves with a status and a body.   *)
(***************************************************************************)
\* an issue without screenInfo comes from a quick scan
SuggestIssue(id, type, severity, element, screenInfo) ==
  [id |-> id, type |-> type, severity |-> severity, element |-> element,
   screenInfo |-> screenInfo]

LessonIssue1 ==
  SuggestIssue("i1", "image-alt", "critical", Markup(MaxMarkup), Stored([screenNumber |-> 1]))
LessonIssue2 ==
  SuggestIssue("i2", "image-alt", "critical", Markup(1), Stored([screenNumber |-> 2]))
QuickIssue == SuggestIssue("i3", "region", "serious", Markup(ElementLimit), Unset)

SuggestIssues == {LessonIssue1, LessonIssue2, QuickIssue}

\* what a fetch of the backend ends in: rejected (transport failure), a
\* non-2xx status, a 2xx body with a suggestion, or a 2xx body without one
BackendOutcomes ==
  { [rejected |-> TRUE, ok |-> FALSE, suggestion |-> Unset],
    [rejected |-> FALSE, ok |-> FALSE, suggestion |-> Unset],
    [rejected |-> FALSE, ok |-> TRUE, suggestion |-> Stored("Use alt text.")],
    [rejected |-> FALSE, ok |-> TRUE, suggestion |-> Unset] }

Failed(outcome) == outcome.rejected \/ ~outcome.ok

FallbackNote == " (Note: AI service unavailable, using enhanced heuristic suggestion)"

generateEnhancedFallback(issue) ==
  LET screenContext == IF issue.screenInfo = Unset THEN ""
                       ELSE " on screen " \o ToString(issue.screenInfo[1].screenNumber)
  IN CASE issue.type = "color-contrast" -> "Increase color contrast" \o screenContext
       [] issue.type = "image-alt" -> "Add descriptive alt text" \o screenContext
       [] OTHER -> "Review WCAG 2.1 AA guidelines for this " \o issue.severity
                   \o " accessibility issue" \o screenContext

\* a call of a gateway: its issue, the fetch() calls made for it, the other
\* calls for the same issue id that were pending when it was made, and its end
\* the body of the POST request: requestBody of handleGetAiSuggestion, and the
\* object ApiService.getAiSuggestion stringifies; issueDescription, category
\* and the fixed context texts are not kept
RequestBody(via, issue) ==
  IF via = "background"
    THEN [issueType |-> issue.type, element |-> issue.element, severity |-> issue.severity,
          screenInfo |-> issue.screenInfo]
    ELSE [issueType |-> issue.type, element |-> issue.element, severity |-> issue.severity]

NewCall(via, issue, overlaps) ==
  [via |-> via, issue |-> issue, body |-> RequestBody(via, issue), pc |-> "fetching",
   fetches |-> 1, overlaps |-> overlaps, failed |-> FALSE, thrown |-> FALSE,
   response |-> Unset]

PendingFor(calls, id) ==
  {k \in 1..Len(calls) : calls[k].pc = "fetching" /\ calls[k].issue.id = id}

\* a handler that fetches once more after a failed fetch
BackgroundAfterFetchRetrying(call, outcome) ==
  IF Failed(outcome) /\ call.fetches < 2
    THEN [call EXCEPT !.fetches = call.fetches + 1]
    ELSE [call EXCEPT !.pc = "done", !.failed = Failed(outcome),
                      !.response = Stored([success |-> TRUE, suggestion |-> outcome.suggestion])]

\* handleGetAiSuggestion after the await of fetch: the response it sends
BackgroundAfterFetch(call, outcome) ==
  [call EXCEPT
     !.pc = "done",
     !.failed = Failed(outcome),
     !.response = IF Failed(outcome)
                    THEN Stored([success |-> TRUE,
                                 suggestion |-> Stored(generateEnhancedFallback(call.issue)
                                                       \o FallbackNote)])
                    ELSE Stored([success |-> TRUE, suggestion |-> outcome.suggestion])]

\* ApiService.getAiSuggestion after the await of fetch: it returns
\* data.suggestion or rethrows the error
ApiAfterFetch(call, outcome) ==
  [call EXCEPT
     !.pc = "done",
     !.failed = Failed(outcome),
     !.thrown = Failed(outcome),
     !.response = IF Failed(outcome) THEN Unset
                  ELSE Stored([success |-> TRUE, suggestion |-> outcome.suggestion])]

\* the popup as its script leaves it when nothing is stored
NoPopup ==
  [open |-> TRUE, currentIssueForAi |-> Unset, disabled |-> FALSE, panel |-> "hidden",
   viewMode |-> "quick", currentResults |-> << >>, lessonScanData |-> << >>,
   lessonScanActive |-> FALSE, stopDisabled |-> TRUE]

\* showIssueDetail(issue): the detail modal is opened on an issue
showIssueDetail(issue) ==
  /\ gateway' = [gateway EXCEPT
       !.popup = [@ EXCEPT !.currentIssueForAi = Stored(issue), !.disabled = FALSE,
                           !.panel = "hidden"]]
  /\ log' = [op |-> "showIssueDetail"]
  /\ UNCHANGED <<pageVars, now, sessionVars, detectorVars, scansPending, events, cmdVars,
                 bgVars, stopRun, viaBackground, norm, pageScan, injection, burst>>

\* The click handler of fetchAiSuggestion up to its await, and
\* handleGetAiSuggestion up to the await of fetch.
ClickFetchAiSuggestion ==
  /\ gateway.popup.currentIssueForAi # Unset
  /\ ~gateway.popup.disabled
  /\ Len(gateway.calls) < MaxCalls
  /\ LET issue == gateway.popup.currentIssueForAi[1] IN
       gateway' = [gateway EXCEPT
         !.popup = [gateway.popup EXCEPT !.disabled = TRUE, !.panel = "analyzing"],
         !.calls = Append(gateway.calls,
                          NewCall("background", issue, PendingFor(gateway.calls, issue.id)))]
  /\ log' = [op |-> "click"]
  /\ UNCHANGED <<pageVars, now, sessionVars, detectorVars, scansPending, events, cmdVars,
                 bgVars, stopRun, viaBackground, norm, pageScan, injection, burst>>

\* currentResults.findIndex(i => i.id === id); 0 stands for -1
RECURSIVE FindIssueFrom(_, _, _)
FindIssueFrom(results, id, i) ==
  IF i > Len(results) THEN 0
  ELSE IF results[i].id = id THEN i
  ELSE FindIssueFrom(results, id, i + 1)

\* currentResults once the click handler got a suggestion: the issue the
\* detail shows by then gets it as advancedAiSuggestion
ResultsWithSuggestion(popup, suggestion) ==
  LET idx == FindIssueFrom(popup.currentResults, popup.currentIssueForAi[1].id, 1) IN
  IF idx = 0 THEN popup.currentResults
  ELSE [popup.currentResults EXCEPT
          ![idx] = ("advancedAiSuggestion" :> suggestion) @@ popup.currentResults[idx]]

\* The fetch of a call of the background ends; handleGetAiSuggestion sends its
\* response and the click handler of the popup runs to its end.  With a
\* suggestion for an issue of currentResults it writes currentResults to
\* chrome.storage.local, under lastLessonScanResults when viewMode is 'lesson'
\* and under lastQuickScanResults otherwise.
BackgroundFetchEnds(k, outcome) ==
  /\ k \in 1..Len(gateway.calls)
  /\ gateway.calls[k].via = "background"
  /\ gateway.calls[k].pc = "fetching"
  /\ LET call == BackgroundAfterFetch(gateway.calls[k], outcome)
         response == call.response[1]
         got == call.pc = "done" /\ response.success /\ response.suggestion # Unset
         results == IF got THEN ResultsWithSuggestion(gateway.popup, response.suggestion[1])
                    ELSE gateway.popup.currentResults
         found == got /\ FindIssueFrom(gateway.popup.currentResults,
                                       gateway.popup.currentIssueForAi[1].id, 1) > 0
     IN /\ gateway' = [gateway EXCEPT
             !.calls[k] = call,
             !.popup = IF call.pc # "done" THEN gateway.popup
                       ELSE [gateway.popup EXCEPT
                               !.disabled = FALSE,
                               !.panel = IF got THEN "suggestion" ELSE "error",
                               !.currentResults = results]]
        /\ storage' = IF ~found THEN storage
                      ELSE IF gateway.popup.viewMode = "lesson"
                        THEN [storage EXCEPT !.lastLessonScanResults = Stored(results)]
                      ELSE [storage EXCEPT !.lastQuickScanResults = Stored(results)]
        /\ log' = [op |-> "backgroundFetchEnds", wrote |-> found]
  /\ UNCHANGED <<pageVars, now, sessionVars, detectorVars, scansPending, events, cmdVars,
                 lessonScanState, stopRun, viaBackground, norm, pageScan, injection, burst>>

\* ApiService.getAiSuggestion(issue) up to the await of fetch
ApiGetAiSuggestion(issue) ==
  /\ Len(gateway.calls) < MaxCalls
  /\ gateway' = [gateway EXCEPT
       !.calls = Append(gateway.calls,
                        NewCall("api", issue, PendingFor(gateway.calls, issue.id)))]
  /\ log' = [op |-> "apiGetAiSuggestion"]
  /\ UNCHANGED <<pageVars, now, sessionVars, detectorVars, scansPending, events, cmdVars,
                 bgVars, stopRun, viaBackground, norm, pageScan, injection, burst>>

\* the fetch of a call of ApiService ends
ApiFetchEnds(k, outcome) ==
  /\ k \in 1..Len(gateway.calls)
  /\ gateway.calls[k].via = "api"
  /\ gateway.calls[k].pc = "fetching"
  /\ gateway' = [gateway EXCEPT !.calls[k] = ApiAfterFetch(gateway.calls[k], outcome)]
  /\ log' = [op |-> "apiFetchEnds"]
  /\ UNCHANGED <<pageVars, now, sessionVars, detectorVars, scansPending, events, cmdVars,
                 bgVars, stopRun, viaBackground, norm, pageScan, injection, burst>>

InitSuggest ==
  /\ InitPage
  /\ InitContent
  /\ InitBackground
  /\ viaBackground = TRUE
  /\ norm = << >>
  /\ gateway = [popup |-> NoPopup, calls |-> << >>, analyses |-> << >>]
  /\ pageScan = << >>
  /\ injection = << >>

NextSuggest ==
  \/ \E issue \in SuggestIssues : showIssueDetail(issue)
  \/ ClickFetchAiSuggestion
  \/ \E k \in 1..MaxCalls, outcome \in BackendOutcomes : BackgroundFetchEnds(k, outcome)
  \/ \E issue \in SuggestIssues : ApiGetAiSuggestion(issue)
  \/ \E k \in 1..MaxCalls, outcome \in BackendOutcomes : ApiFetchEnds(k, outcome)

SpecSuggest == InitSuggest /\ [][NextSuggest]_vars

(***************************************************************************)
(* SpecOutbound: what leaves the extension and what the popup stores.  The *)
(* popup was opened after a scan and shows its results; the user asks for  *)
(* suggestions; a caller of ApiService.analyzeScreen (api.js, 415-447)     *)
(* hands it the page.                                                      *)
(***************************************************************************)
\* the stored record of a lesson scan of two screens
StoredLesson ==
  [lastLessonScanResults |-> Stored(<< LessonIssue1, LessonIssue2 >>),
   lastLessonScanScreenData |->
     Stored(<< [screenNumber |-> 1, issues |-> << LessonIssue1 >>],
               [screenNumber |-> 2, issues |-> << LessonIssue2 >>] >>),
   lastLessonScanSummary |-> Stored([totalScreens |-> 2, totalIssues |-> 2]),
   lastLessonScanTime |-> Stored(0),
   lastLessonScanInfo |-> Stored([startTime |-> 0, endTime |-> 0, totalScreens |-> 2,
                                  totalIssues |-> 2]),
   lastQuickScanResults |-> Unset]

\* The popup after the callback of chrome.storage.local.get at load:
\* lastQuickScanResults, when stored, are shown before lastLessonScanResults.
PopupLoaded(quick, stored) ==
  IF quick # Unset
    THEN [NoPopup EXCEPT !.viewMode = "quick", !.currentResults = quick[1]]
  ELSE IF stored.lastLessonScanResults # Unset
    THEN [NoPopup EXCEPT !.viewMode = "lesson",
                         !.currentResults = stored.lastLessonScanResults[1],
                         !.lessonScanData =
                            IF stored.lastLessonScanScreenData = Unset THEN << >>
                            ELSE stored.lastLessonScanScreenData[1]]
  ELSE NoPopup

\* the HTML of the page, as the caller of analyzeScreen reads it
PageHtml == Markup(MaxMarkup)

\* ApiService.analyzeScreen(url, html, issues) up to the await of fetch
ApiAnalyzeScreen(url, html, issues) ==
  /\ Len(gateway.analyses) < MaxAnalyses
  /\ gateway' = [gateway EXCEPT
       !.analyses = Append(@, [body |-> [url |-> url, html |-> html, issues |-> issues],
                               pc |-> "fetching", thrown |-> FALSE])]
  /\ log' = [op |-> "apiAnalyzeScreen"]
  /\ UNCHANGED <<pageVars, now, sessionVars, detectorVars, scansPending, events, cmdVars,
                 bgVars, stopRun, viaBackground, norm, pageScan, injection, burst>>

\* the fetch of a call of analyzeScreen ends: it returns the JSON of the
\* response or rethrows the error
ApiAnalyzeEnds(k, outcome) ==
  /\ k \in 1..Len(gateway.analyses)
  /\ gateway.analyses[k].pc = "fetching"
  /\ gateway' = [gateway EXCEPT
       !.analyses[k] = [@ EXCEPT !.pc = "done", !.thrown = Failed(outcome)]]
  /\ log' = [op |-> "apiAnalyzeEnds"]
  /\ UNCHANGED <<pageVars, now, sessionVars, detectorVars, scansPending, events, cmdVars,
                 bgVars, stopRun, viaBackground, norm, pageScan, injection, burst>>

InitOutbound ==
  /\ InitPage
  /\ InitContent
  /\ events = << >>
  /\ pcStart = "idle"
  /\ pcStop = "idle"
  /\ startOk = FALSE
  /\ lessonScanState = [isActive |-> FALSE, startTime |-> 0, currentScreen |-> 2,
                        screenData |-> StoredLesson.lastLessonScanScreenData[1]]
  /\ stopRun = NoRun
  /\ log = [op |-> "init"]
  /\ viaBackground = TRUE
  /\ norm = << >>
  /\ pageScan = << >>
  /\ injection = << >>
  /\ \E quick \in {Unset, Stored(<< QuickIssue >>)} :
       /\ storage = [StoredLesson EXCEPT !.lastQuickScanResults = quick]
       /\ gateway = [popup |-> PopupLoaded(quick, StoredLesson), calls |-> << >>,
                     analyses |-> << >>]

NextOutbound ==
  \/ \E issue \in SuggestIssues : showIssueDetail(issue)
  \/ ClickFetchAiSuggestion
  \/ \E k \in 1..MaxCalls, outcome \in BackendOutcomes : BackgroundFetchEnds(k, outcome)
  \/ \E issues \in {<< >>, << QuickIssue >>} : ApiAnalyzeScreen(href, PageHtml, issues)
  \/ \E k \in 1..MaxAnalyses, outcome \in BackendOutcomes : ApiAnalyzeEnds(k, outcome)

SpecOutbound == InitOutbound /\ [][NextOutbound]_vars

(***************************************************************************)
(* SpecPopup: the popup as the observer of lesson scans.  Sessions are     *)
(* started and stopped through the background; the popup is opened and     *)
(* closed at any moment, takes the state of the session from the           *)
(* background when it loads, and its onMessage listener (popup.js,         *)
(* 437-453) handles lessonScanComplete and scanError.                      *)
(***************************************************************************)
ClosedPopup == [NoPopup EXCEPT !.open = FALSE]

\* updateLessonScanUI(isActive): the flag and the stop button
updateLessonScanUI(popup, isActive) ==
  [popup EXCEPT !.lessonScanActive = isActive, !.stopDisabled = ~isActive]

\* The popup is opened: its script runs, the callback of
\* chrome.storage.local.get shows the stored results and the callback of
\* getLessonScanState takes over an active session.
PopupOpens ==
  /\ ~gateway.popup.open
  /\ gateway' = [gateway EXCEPT
       !.popup = IF lessonScanState.isActive
                   THEN updateLessonScanUI(PopupLoaded(Unset, storage), TRUE)
                   ELSE PopupLoaded(Unset, storage)]
  /\ log' = [op |-> "popupOpens"]
  /\ UNCHANGED <<pageVars, now, sessionVars, detectorVars, scansPending, events, cmdVars,
                 bgVars, stopRun, viaBackground, norm, pageScan, injection, burst>>

\* the popup is closed; its document and its state are gone
PopupCloses ==
  /\ gateway.popup.open
  /\ gateway' = [gateway EXCEPT !.popup = ClosedPopup]
  /\ log' = [op |-> "popupCloses"]
  /\ UNCHANGED <<pageVars, now, sessionVars, detectorVars, scansPending, events, cmdVars,
                 bgVars, stopRun, viaBackground, norm, pageScan, injection, burst>>

\* case 'scanError' of the listener: showError.  The page scan of content.js
\* sends scanError whenever one of its scans fails.
PopupScanError ==
  /\ gateway.popup.open
  /\ gateway' = [gateway EXCEPT !.popup = updateLessonScanUI(@, FALSE)]
  /\ log' = [op |-> "popupScanError", wasActive |-> gateway.popup.lessonScanActive]
  /\ UNCHANGED <<pageVars, now, sessionVars, detectorVars, scansPending, events, cmdVars,
                 bgVars, stopRun, viaBackground, norm, pageScan, injection, burst>>

\* case 'lessonScanComplete' of the listener, for the notification of the
\* content script that the background is about to handle:
\* lessonScanComplete(request), which stores the results it shows
PopupLessonScanComplete ==
  /\ gateway.popup.open
  /\ events # << >>
  /\ Head(events).action = "lessonScanComplete"
  /\ LET request == Head(events) IN
       /\ gateway' = [gateway EXCEPT
            !.popup = [updateLessonScanUI(@, FALSE) EXCEPT
                         !.currentResults = request.results,
                         !.lessonScanData = request.screenData]]
       /\ storage' = [storage EXCEPT
            !.lastLessonScanResults = Stored(request.results),
            !.lastLessonScanScreenData = Stored(request.screenData)]
  /\ log' = [op |-> "popupLessonScanComplete"]
  /\ UNCHANGED <<pageVars, now, sessionVars, detectorVars, scansPending, events, cmdVars,
                 lessonScanState, stopRun, viaBackground, norm, pageScan, injection, burst>>

InitPopup ==
  /\ InitPage
  /\ InitContent
  /\ InitBackground
  /\ viaBackground = TRUE
  /\ norm = << >>
  /\ pageScan = << >>
  /\ injection = << >>
  /\ gateway = [popup |-> ClosedPopup, calls |-> << >>, analyses |-> << >>]

NextPopup ==
  \/ BgStartLessonScan
  \/ \E delivered \in BOOLEAN : ForwardStart(delivered)
  \/ ContentStartLessonScan
  \/ \E scan \in BagToSet(scansPending), outcome \in BgOutcomes : AxeCallback(scan, outcome)
  \/ BgStartResponse
  \/ BgStopLessonScan
  \/ \E delivered \in BOOLEAN : ForwardStop(delivered)
  \/ ContentStopLessonScan
  \/ BgStopResponse
  \/ BgStopFinish
  \/ BgReceive
  \/ PopupOpens
  \/ PopupCloses
  \/ PopupScanError
  \/ PopupLessonScanComplete

SpecPopup == InitPopup /\ [][NextPopup]_vars

(***************************************************************************)
(* SpecPageScan: the page scan of content.js.  'startScan' runs            *)
(* performAccessibilityScan: the axe pass, then the UI/UX heuristics on    *)
(* the page as it is then, then formatResults; the outcome is sent as      *)
(* scanComplete or as scanError.  The web-vitals callbacks push live       *)
(* issues in between.                                                      *)
(***************************************************************************)
\* the one-character ellipsis (U+2026) that truncate appends
Ellipsis == "..."

truncate(str, max) ==
  IF Len(str) > max THEN SubSeq(str, 1, max) \o << Ellipsis >> ELSE str

mapImpact(impact) ==
  IF impact \in {"critical", "serious", "moderate", "minor"} THEN impact ELSE "moderate"

\* the issue formatResults pushes for one node; n is the running id
PageIssue(n, v, node, category) ==
  [ id |-> "issue-" \o ToString(n),
    element |-> truncate(node.html, ElementLimit),
    selector |-> IF node.target = << >> THEN "" ELSE node.target[1],
    severity |-> mapImpact(v.impact),
    category |-> category,
    type |-> v.id ]

RECURSIVE NumNodes(_)
NumNodes(violations) ==
  IF violations = << >> THEN 0
  ELSE Len(Head(violations).nodes) + NumNodes(Tail(violations))

\* one forEach of formatResults: the issues of a list of violations, the ids
\* running on from n
RECURSIVE FormatFrom(_, _, _)
FormatFrom(violations, category, n) ==
  IF violations = << >> THEN << >>
  ELSE [k \in 1..Len(Head(violations).nodes) |->
          PageIssue(n + k - 1, Head(violations), Head(violations).nodes[k], category)]
       \o FormatFrom(Tail(violations), category, n + Len(Head(violations).nodes))

formatResults(axeRes, uxRes) ==
  FormatFrom(axeRes, "a11y", 1) \o FormatFrom(uxRes, "uiux", 1 + NumNodes(axeRes))

\* What runUiUxChecks reads of the page: its links and buttons (markup, whether
\* smaller than 44 px, whether an SVG element with a class, whose className is
\* an SVGAnimatedString without trim()), the font size of the body and the
\* width of the document.
Clickable(html, small, svgClass) == [html |-> html, small |-> small, svgClass |-> svgClass]

PageDom(clickables, smallFont, overflow) ==
  [clickables |-> clickables, smallFont |-> smallFont, overflow |-> overflow]

PageDoms ==
  { PageDom(<< >>, FALSE, FALSE),
    PageDom(<< Clickable(Markup(MaxMarkup), TRUE, FALSE) >>, TRUE, FALSE),
    PageDom(<< Clickable(Markup(1), TRUE, TRUE) >>, FALSE, FALSE),
    PageDom(<< Clickable(Markup(1), FALSE, TRUE) >>, FALSE, TRUE) }

\* the issues of 6-a, or that simpleSelector throws
RECURSIVE TouchTargets(_)
TouchTargets(clickables) ==
  IF clickables = << >> THEN [threw |-> FALSE, issues |-> << >>]
  ELSE LET el == Head(clickables)
           rest == TouchTargets(Tail(clickables))
       IN IF ~el.small THEN rest
          ELSE IF el.svgClass THEN [threw |-> TRUE, issues |-> << >>]
          ELSE [threw |-> rest.threw,
                issues |-> << Violation("touch-target-size", "moderate",
                                        << HtmlNode(<<"button">>, el.html) >>) >>
                           \o rest.issues]

\* runUiUxChecks: the issues it returns, or that it throws; live is liveUiIssues
runUiUxChecks(dom, live) ==
  LET touch == TouchTargets(dom.clickables)
      font == IF dom.smallFont
                THEN << Violation("font-size-too-small", "minor",
                                  << HtmlNode(<<"body">>, Markup(4)) >>) >>
                ELSE << >>
      width == IF dom.overflow
                 THEN << Violation("viewport-width", "minor", << HtmlNode(<< >>, Markup(0)) >>) >>
                 ELSE << >>
  IN IF touch.threw THEN [threw |-> TRUE, issues |-> << >>]
     ELSE [threw |-> FALSE, issues |-> touch.issues \o font \o width \o live]

\* the violation lists the axe pass of a page scan resolves with
PageAxeLists ==
  { << >>,
    << Violation("image-alt", "critical", << HtmlNode(<<"img">>, Markup(ElementLimit)) >>) >>,
    << Violation("label", "serious", << HtmlNode(<<"form", "input">>, Markup(MaxMarkup)),
                                        Node(<<"input">>) >>) >> }

PageAxeOutcomes ==
  {[err |-> TRUE, violations |-> << >>]}
    \cup {[err |-> FALSE, violations |-> v] : v \in PageAxeLists}

ScanProgressMsg(progress) == [action |-> "scanProgress", progress |-> progress]
ScanCompleteMsg(results) == [action |-> "scanComplete", results |-> results]
ScanErrorMsg == [action |-> "scanError"]

\* the onCLS and onLCP callbacks of the web-vitals block
LiveIssue(kind) ==
  Violation(kind, IF kind = "layout-shift" THEN "moderate" ELSE "serious",
            << HtmlNode(<< >>, Markup(22)) >>)

LiveMetric(kind) ==
  /\ Len(pageScan.liveUiIssues) < MaxLive
  /\ pageScan' = [pageScan EXCEPT !.liveUiIssues = Append(@, LiveIssue(kind))]
  /\ log' = [op |-> "liveMetric"]
  /\ UNCHANGED <<pageVars, now, sessionVars, detectorVars, scansPending, events, cmdVars,
                 bgVars, stopRun, viaBackground, norm, gateway, injection, burst>>

\* case 'startScan' of the message router, in the top frame:
\* performAccessibilityScan up to the await of runAxeAnalysis
StartScan ==
  /\ pageScan.started < MaxPageScans
  /\ pageScan' = [pageScan EXCEPT !.started = @ + 1, !.running = @ + 1,
                                  !.sent = << ScanProgressMsg(10) >>]
  /\ log' = [op |-> "startScan", response |-> "scan started"]
  /\ UNCHANGED <<pageVars, now, sessionVars, detectorVars, scansPending, events, cmdVars,
                 bgVars, stopRun, viaBackground, norm, gateway, injection, burst>>

\* what performAccessibilityScan and the then/catch of 'startScan' send once
\* the callback of axe.run was called
SentAfterAxe(outcome, ux) ==
  IF outcome.err THEN << ScanErrorMsg >>
  ELSE IF ux.threw THEN << ScanProgressMsg(50), ScanErrorMsg >>
  ELSE << ScanProgressMsg(50), ScanProgressMsg(90), ScanProgressMsg(100),
          ScanCompleteMsg(formatResults(outcome.violations, ux.issues)) >>

\* The callback of axe.run of runAxeAnalysis and the rest of
\* performAccessibilityScan, which runs in the same turn of the event loop;
\* dom is the page at that moment.
PageAxeEnds(outcome, dom) ==
  /\ pageScan.running > 0
  /\ LET ux == IF outcome.err THEN [threw |-> FALSE, issues |-> << >>]
               ELSE runUiUxChecks(dom, pageScan.liveUiIssues)
         ran == ~outcome.err /\ ~ux.threw
     IN /\ pageScan' = [pageScan EXCEPT
               !.running = @ - 1,
               !.liveUiIssues = IF ran THEN << >> ELSE @,
               !.sent = SentAfterAxe(outcome, ux)]
        /\ log' = [op |-> "pageAxeEnds", axe |-> outcome, threw |-> ux.threw]
  /\ UNCHANGED <<pageVars, now, sessionVars, detectorVars, scansPending, events, cmdVars,
                 bgVars, stopRun, viaBackground, norm, gateway, injection, burst>>

InitPageScan ==
  /\ InitPage
  /\ InitContent
  /\ InitBackground
  /\ viaBackground = FALSE
  /\ norm = << >>
  /\ gateway = << >>
  /\ pageScan = [started |-> 0, running |-> 0, liveUiIssues |-> << >>, sent |-> << >>]
  /\ injection = << >>

NextPageScan ==
  \/ \E kind \in {"layout-shift", "lcp"} : LiveMetric(kind)
  \/ StartScan
  \/ \E outcome \in PageAxeOutcomes, dom \in PageDoms : PageAxeEnds(outcome, dom)

SpecPageScan == InitPageScan /\ [][NextPageScan]_vars

(***************************************************************************)
(* Claims about the content script, checked under Spec.                    *)
(***************************************************************************)
HasAction(msgs, action) == \E i \in 1..Len(msgs) : msgs[i].action = action

\* C1: the k-th record of screenData has screenNumber k, whatever screen
\* changes, pending scans and failed scans the session went through.
C1_ScreenNumbersGapFree ==
  \A k \in 1..Len(screenData) : screenData[k].screenNumber = k

\* C3: once the session is stopped, until the next start, no step changes
\* screenData or currentScreen or sends lessonScanProgress, and the stop leaves
\* no debounce timer pending.
C3_NoLateCallbackAfterStop ==
  [][ /\ (~lessonScanActive /\ sessionNo' = sessionNo)
         => /\ screenData' = screenData
            /\ currentScreen' = currentScreen
            /\ (log'.op = "axeCallback" => ~HasAction(log'.sent, "lessonScanProgress"))
      /\ (log'.op = "contentStop" => screenChangeTimeout' = NoTimer) ]_vars

\* C4: at most one axe scan is in progress at any time.
C4_OneScanAtATime == NumPending <= 1

\* C5: with a budget of ExampleMaxScreens screens the session never holds
\* more screens than the budget, and it is completed once the budget is reached.
C5_BudgetEnforced ==
  /\ Len(screenData) <= ExampleMaxScreens
  /\ currentScreen <= ExampleMaxScreens
  /\ (Len(screenData) = ExampleMaxScreens => ~lessonScanActive)

\* C7: when the debounce timer of a burst of triggers of an active session
\* runs out, exactly one screen change follows: currentScreen is incremented
\* and one scan is started.  (In the first session every timer was set by a
\* trigger of that session: the observers exist from its start, and stop clears
\* the timer.)
C7_BurstYieldsOneScreenChange ==
  (log.op = "timer" /\ lessonScanActive /\ sessionNo = 1)
    => (log.changed /\ (axeLoaded => log.scan))

\* the (impact, rule) pairs of the nodes of the violations with an impact in
\* impacts, in detection order
RECURSIVE NodePairs(_, _)
NodePairs(violations, impacts) ==
  IF violations = << >> THEN << >>
  ELSE (IF Head(violations).impact \in impacts
          THEN [n \in 1..Len(Head(violations).nodes) |->
                  <<Head(violations).impact, Head(violations).id>>]
          ELSE << >>)
       \o NodePairs(Tail(violations), impacts)

IssuePairs(issues) == [i \in 1..Len(issues) |-> <<issues[i].severity, issues[i].type>>]

RecordedIssues == screenData[findIndex(screenData, currentScreen)].issues


C10_StartFailsWithoutAxe ==
  (log.op = "contentStart" /\ ~log.axe)
    => /\ ~lessonScanActive
       /\ log.responded /\ ~log.success
       /\ ~HasAction(log.sent, "lessonScanStarted")


\* C14: a failed audit leaves the session active and the detector as it
\* was, and every later screen change of the active session is counted and,
\* with axe loaded, scanned.
C14_FailedAuditKeepsSession ==
  [][ /\ (log'.op = "axeCallback" /\ log'.raw.err)
         => /\ lessonScanActive' = lessonScanActive
            /\ currentScreen' = currentScreen
            /\ <<lastUrl, lastTitle, screenChangeTimeout, observers>>'
                 = <<lastUrl, lastTitle, screenChangeTimeout, observers>>
      /\ (log'.op = "timer" /\ lessonScanActive /\ (href # lastUrl \/ docTitle # lastTitle))
         => /\ currentScreen' = currentScreen + 1
            /\ (axeLoaded => NumPending' = NumPending + 1) ]_vars

\* the audit of screen 1 failed (it left no record), the session is active and
\* the next screen change was counted and its scan started
C14_Witness ==
  /\ log.op = "timer" /\ log.changed /\ log.scan
  /\ sessionNo = 1
  /\ lessonScanActive
  /\ currentScreen = 2
  /\ screenData = << >>
  /\ scansPending = SetToBag({Scan("change", 1)})

\* C15: after a failed audit screenData holds a record for that screen with no
\* issues and scanFailed: true.
C15_FailedAuditRecorded ==
  (log.op = "axeCallback" /\ log.raw.err)
    => /\ findIndex(screenData, currentScreen) > 0
       /\ LET rec == screenData[findIndex(screenData, currentScreen)]
          IN /\ rec.issues = << >>
             /\ "scanFailed" \in DOMAIN rec
             /\ rec.scanFailed

\* C16: the callback of a scan started in an earlier session changes nothing in
\* the screenData of the current one.
C16_NoResultOfPriorSession ==
  [][ (log'.op = "axeCallback" /\ log'.scan.sess < sessionNo') => screenData' = screenData ]_vars

\* C19: with a budget of ExampleMaxIssues issues per screen no recorded screen
\* holds more issues than the budget.
C19_IssuesPerScreenCapped ==
  \A k \in 1..Len(screenData) : Len(screenData[k].issues) <= ExampleMaxIssues

\* C20: when the debounce timer of a burst of DOM mutations alone runs out in
\* an active session, a new screen is counted and, with axe loaded, scanned.
C20_DomMutationIsScreenChange ==
  (log.op = "timer" /\ lessonScanActive /\ sessionNo = 1 /\ log.burst = {"dom"})
    => (log.changed /\ (axeLoaded => log.scan))

\* C25: while no session is active, after any number of starts and stops, no
\* observer registered by startScreenMonitoring is live.
C25_StopUnsubscribes ==
  ~lessonScanActive => observers = 0

\* C29: when the audits of three consecutive screens of an active session
\* have failed (screens 1 to 3 of the first session, axe loaded, no audit
\* pending and none recorded), the callback of the last failure sends the
\* observer a notification other than lessonScanStarted and lessonScanProgress,
\* and the session is still active.
C29_ThreeFailuresWarn ==
  ( /\ log.op = "axeCallback" /\ log.raw.err
    /\ sessionNo = 1 /\ axeLoaded /\ lessonScanActive
    /\ currentScreen = 3 /\ NumPending = 0 /\ screenData = << >> )
    => \E i \in 1..Len(log.sent) :
         log.sent[i].action \notin {"lessonScanStarted", "lessonScanProgress"}

\* C30: no two records of screenData have the same screenNumber, and a scan
\* result stored for a screenNumber that had a record left the number of
\* records as it was and replaced that record, issues included, by the record
\* of the new result.
C30_OneRecordPerScreen ==
  /\ \A i, j \in 1..Len(screenData) :
       i # j => screenData[i].screenNumber # screenData[j].screenNumber
  /\ (log.op = "axeCallback" /\ log.replaced)
       => /\ Len(screenData) = log.before
          /\ screenData[findIndex(screenData, currentScreen)] =
               [screenNumber |-> currentScreen,
                issues |-> Ledger(processScanResults(log.raw.violations, getScreenInfo,
                                                     TRUE, now))]

\* the result of the start scan, without violations, was stored for screen 2;
\* the result of the scan of screen 2 replaced it by a record with two issues
C30_Witness ==
  /\ log.op = "axeCallback" /\ log.replaced
  /\ log.scan.kind = "change"
  /\ currentScreen = 2
  /\ Len(screenData) = 1
  /\ screenData[1].screenNumber = 2
  /\ Len(screenData[1].issues) = 2

(***************************************************************************)
(* Claims about the content script behind the background, checked under    *)
(* SpecBg.                                                                 *)
(***************************************************************************)
\* C2: a start handled while a session is active and holds screens either
\* leaves the session as it was or finds its screens kept in the record of the
\* last session.
C2_ActiveSessionNotDiscarded ==
  (log.op = "contentStart" /\ log.wasActive /\ log.had # << >>)
    => \/ screenData = log.had
       \/ Stored(log.had) \in {storage.lastLessonScanScreenData,
                               storage.lastLessonScanResults}

\* C6: after a second stop in a row of a session that was started, the
\* snapshot of the session (active flag, currentScreen, screenData, the state
\* and the stored record of the background) is the snapshot after the first stop.
C6_SecondStopChangesNothing ==
  (stopRun.n >= 2 /\ sessionNo >= 1) => Snapshot = stopRun.snap

\* C17: a stop handled while no session is active sends no
\* lessonScanComplete, and while no session was ever started nothing is
\* written to the stored record of the last session.
C17_StopWhenIdleIsNoOp ==
  /\ (log.op = "contentStop" /\ ~log.wasActive) => ~HasAction(log.sent, "lessonScanComplete")
  /\ sessionNo = 0 => \A key \in DOMAIN storage : storage[key] = Unset

\* C23: a lessonScanProgress notification the background handles while a stop
\* is in progress or while its session is inactive changes neither
\* currentScreen nor screenData of lessonScanState, and while the content
\* script's session is inactive no audit callback and no timer changes its
\* currentScreen or screenData.
C23_EventsAfterStopDropped ==
  [][ /\ (log'.op = "bgReceive" /\ log'.action = "lessonScanProgress"
            /\ (pcStop # "idle" \/ ~lessonScanState.isActive))
         => /\ lessonScanState'.currentScreen = lessonScanState.currentScreen
            /\ lessonScanState'.screenData = lessonScanState.screenData
      /\ (log'.op \in {"axeCallback", "timer"} /\ ~lessonScanActive)
         => /\ currentScreen' = currentScreen
            /\ screenData' = screenData ]_vars

(***************************************************************************)
(* Claims about the normalizer, checked under SpecNormalize.               *)
(***************************************************************************)
Ids(issues) == [i \in 1..Len(issues) |-> issues[i].id]

\* C8: normalising the same raw result for the same screenNumber a second
\* time, whatever the time, yields the ids of the first time.
C8_IdIsPureFunction ==
  norm.calls = 2 => Ids(norm.issues) = Ids(norm.previous)

(***************************************************************************)
(* Claims about AI suggestions, checked under SpecSuggest.                 *)
(***************************************************************************)
\* C11: of two calls for the same issue id, the second made while the first
\* was pending, exactly one makes a request to the backend, and both end with
\* the same suggestion.
C11_ConcurrentRequestsCoalesced ==
  \A k \in 1..Len(gateway.calls) : \A j \in gateway.calls[k].overlaps :
    /\ gateway.calls[k].fetches + gateway.calls[j].fetches = 1
    /\ (gateway.calls[k].pc = "done" /\ gateway.calls[j].pc = "done")
         => /\ gateway.calls[k].response = gateway.calls[j].response
            /\ gateway.calls[k].thrown = gateway.calls[j].thrown

\* C12: a call whose fetch was rejected or answered with a non-2xx status ends
\* with suggestion text and not with an exception, and the text is the same for
\* the same rule type.
C12_FailureGivesFallbackText ==
  \A k \in 1..Len(gateway.calls) :
    (gateway.calls[k].pc = "done" /\ gateway.calls[k].failed)
      => /\ ~gateway.calls[k].thrown
         /\ gateway.calls[k].response # Unset
         /\ gateway.calls[k].response[1].suggestion # Unset
         /\ \A j \in 1..Len(gateway.calls) :
              (gateway.calls[j].pc = "done" /\ gateway.calls[j].failed
                 /\ gateway.calls[j].issue.type = gateway.calls[k].issue.type)
                => gateway.calls[j].response = gateway.calls[k].response

\* C13: no call makes more than one request to the backend, whether its fetch
\* failed or not.
C13_NoAutomaticRetry ==
  \A k \in 1..Len(gateway.calls) : gateway.calls[k].fetches <= 1

C13_Witness ==
  \E k \in 1..Len(gateway.calls) :
    /\ gateway.calls[k].via = "background"
    /\ gateway.calls[k].pc = "done"
    /\ gateway.calls[k].failed
    /\ gateway.calls[k].fetches = 1
    /\ gateway.calls[k].response[1].suggestion
         = Stored(generateEnhancedFallback(gateway.calls[k].issue) \o FallbackNote)

(***************************************************************************)
(* Claims about the state reads, checked under SpecRead.                   *)
(***************************************************************************)
\* C18: in every state both reads can be made, and a read answers success:
\* true with the state as it is and changes no variable of the session, of the
\* detector, of the commands in progress or of the background.
C18_ReadsAlwaysSucceedAndChangeNothing ==
  /\ [](ENABLED GetLessonScanState /\ ENABLED GetCurrentLessonData)
  /\ [][ /\ log'.op = "getLessonScanState"
            => /\ log'.response.success
               /\ log'.response.state = lessonScanState
         /\ log'.op = "getCurrentLessonData"
            => /\ log'.response.success
               /\ log'.response.screenData = screenData
               /\ log'.response.isActive = lessonScanActive
         /\ log'.op \in {"getLessonScanState", "getCurrentLessonData"}
            => UNCHANGED <<sessionVars, detectorVars, scansPending, events, cmdVars, bgVars>>
     ]_vars

\* a read of the background made while a stop of a session with a recorded
\* screen is in progress
C18_Witness ==
  /\ log.op = "getLessonScanState"
  /\ pcStop = "responding"
  /\ lessonScanState.isActive
  /\ log.response.state.screenData # << >>

(***************************************************************************)
(* Claims about the page scan, checked under SpecPageScan.                 *)
(***************************************************************************)
\* C22: when the axe pass of a page scan succeeded with violations and the
\* heuristic pass threw, scanComplete is sent and its results are the issues
\* of the axe pass.
C22_HeuristicFailureKeepsAxeResults ==
  (log.op = "pageAxeEnds" /\ ~log.axe.err /\ log.axe.violations # << >> /\ log.threw)
    => \E i \in 1..Len(pageScan.sent) :
         /\ pageScan.sent[i].action = "scanComplete"
         /\ pageScan.sent[i].results = formatResults(log.axe.violations, << >>)

(***************************************************************************)
(* Further claims about the normalizer, checked under SpecNormalize.       *)
(***************************************************************************)
\* C21: the issues processScanResults builds for one screen from one raw
\* violation list have pairwise different ids.
C21_IdsUniquePerScreen ==
  norm.calls >= 1
    => \A i, j \in 1..Len(norm.issues) : i # j => norm.issues[i].id # norm.issues[j].id

\* C27: the element of every issue processScanResults builds is at most
\* ElementLimit characters and an ellipsis long, whatever the length of the
\* markup of the node.
C27_ElementBounded ==
  \A i \in 1..Len(norm.issues) : Len(norm.issues[i].element) <= ElementLimit + 1

(***************************************************************************)
(* Claims about the popup, checked under SpecPopup.                        *)
(***************************************************************************)
\* C24: after the popup handled a scanError while it showed a session as
\* active and the session is active (in the content script and in the
\* background), the popup still shows the session as active and its stop
\* button is enabled.
C24_ScanErrorKeepsActiveSession ==
  (log.op = "popupScanError" /\ log.wasActive /\ lessonScanActive /\ lessonScanState.isActive)
    => (gateway.popup.lessonScanActive /\ ~gateway.popup.stopDisabled)

(***************************************************************************)
(* Claims about stored and outbound data, checked under SpecOutbound.      *)
(***************************************************************************)
\* the chrome.storage.local keys of the last lesson scan
LessonScanKeys ==
  {"lastLessonScanResults", "lastLessonScanScreenData", "lastLessonScanSummary",
   "lastLessonScanInfo"}

\* C26: the stored record of the last lesson scan changes only in the steps
\* that end a session: the stop callback of the background and the handling of
\* lessonScanComplete by the background and by the popup.
C26_StoredOnlyAtSessionEnd ==
  [][ (\E key \in LessonScanKeys : storage'[key] # storage[key])
        => \/ log'.op \in {"bgStopResponse", "popupLessonScanComplete"}
           \/ (log'.op = "bgReceive" /\ log'.action = "lessonScanComplete") ]_vars

\* C28: the body of every request to the backend holds no HTML of the page,
\* and every element it holds is at most ElementLimit characters and an
\* ellipsis long.
C28_NoPageHtmlOutbound ==
  /\ \A k \in 1..Len(gateway.calls) :
       Len(gateway.calls[k].body.element) <= ElementLimit + 1
  /\ \A k \in 1..Len(gateway.analyses) :
       /\ gateway.analyses[k].body.html = Markup(0)
       /\ \A i \in 1..Len(gateway.analyses[k].body.issues) :
            Len(gateway.analyses[k].body.issues[i].element) <= ElementLimit + 1

(***************************************************************************)
(* Claims about the progress event and the final summary.                  *)
(***************************************************************************)
ProgressIn(msgs) == {i \in 1..Len(msgs) : msgs[i].action = "lessonScanProgress"}

\* C31: an audit that called back without err sent exactly one
\* lessonScanProgress event; the screenData the event carries is the stored
\* screenData, it holds the record of the event's screenNumber, which is the
\* current screen, and the event's issuesCount is the number of issues of that
\* record.  An audit that called back with err sent no progress event.
C31_OneProgressPerStoredScreen ==
  log.op = "axeCallback" =>
    IF log.stored
      THEN /\ Cardinality(ProgressIn(log.sent)) = 1
           /\ \A i \in ProgressIn(log.sent) :
                /\ log.sent[i].screenData = screenData
                /\ log.sent[i].screenNumber = currentScreen
                /\ findIndex(log.sent[i].screenData, log.sent[i].screenNumber) > 0
                /\ log.sent[i].issuesCount =
                     Len(log.sent[i].screenData[
                           findIndex(log.sent[i].screenData, log.sent[i].screenNumber)].issues)
      ELSE ProgressIn(log.sent) = {}

\* the audit of screen 2 called back with two issues while screen 1 had none
C31_Witness ==
  /\ log.op = "axeCallback" /\ log.stored
  /\ log.scan.kind = "change"
  /\ Len(screenData) = 2
  /\ Len(screenData[1].issues) = 0
  /\ \E i \in ProgressIn(log.sent) :
       log.sent[i].screenNumber = 2 /\ log.sent[i].issuesCount = 2

RECURSIVE SumIssueCounts(_)
SumIssueCounts(data) ==
  IF data = << >> THEN 0 ELSE Len(Head(data).issues) + SumIssueCounts(Tail(data))

\* C32: the summary that the stop of an active session sends, with the audit
\* library loaded and no audit pending, has totalScreens equal to the number
\* of records of screenData, totalIssues equal to the sum of the issue counts
\* of the records, and severity counts that sum to totalIssues.
C32_SummaryMatchesScreenData ==
  (log.op = "contentStop" /\ log.wasActive /\ axeLoaded /\ scansPending = EmptyBag)
    => LET summary == log.sent[1].summary IN
       /\ summary.totalScreens = Len(screenData)
       /\ summary.totalIssues = SumIssueCounts(screenData)
       /\ summary.severityCounts["critical"] + summary.severityCounts["serious"]
            + summary.severityCounts["moderate"] + summary.severityCounts["minor"]
            = summary.totalIssues

\* the two sums of C32 alone
C32_SummaryCountsAddUp ==
  (log.op = "contentStop" /\ log.wasActive /\ axeLoaded /\ scansPending = EmptyBag)
    => LET summary == log.sent[1].summary IN
       /\ summary.totalIssues = SumIssueCounts(screenData)
       /\ summary.severityCounts["critical"] + summary.severityCounts["serious"]
            + summary.severityCounts["moderate"] + summary.severityCounts["minor"]
            = summary.totalIssues

(***************************************************************************)
(* SpecBaseline: the content script on a page that navigates only before   *)
(* the first startLessonScan; from then on the URL and the title stay and  *)
(* only nodes are added to the page.                                       *)
(***************************************************************************)
NavigationBeforeStart ==
  /\ sessionNo = 0
  /\ \/ \E u \in Urls, significant \in BOOLEAN : UrlChange(u, significant)
     \/ \E t \in Titles : TitleMutation(t)

NextBaseline ==
  \/ NavigationBeforeStart
  \/ DomMutation
  \/ Tick
  \/ detectScreenChange
  \/ ContentStartLessonScan
  \/ \E scan \in BagToSet(scansPending), outcome \in AxeOutcomes : AxeCallback(scan, outcome)
  \/ ContentStopLessonScan

SpecBaseline == Init /\ [][NextBaseline]_vars

\* C33: on a page whose URL and title do not change once a scan was started,
\* an active session stays on screen 1 and records at most that one screen,
\* whatever nodes are added and whatever navigation came before the start.
C33_BaselineIsSessionStart ==
  lessonScanActive => (currentScreen = 1 /\ Len(screenData) <= 1)

(***************************************************************************)
(* Claims about the background worker: the stored results, a failed start, *)
(* the injection of the content script.                                    *)
(***************************************************************************)
\* C34: once a stop command has run to its end, the response and the
\* lessonScanComplete notification both handled, lastLessonScanResults holds
\* the flat list of the issues of all screens of the session.
C34_StoredResultsAreFlatIssueList ==
  (stopRun.n >= 1 /\ pcStop = "idle" /\ events = << >> /\ sessionNo >= 1)
    => storage.lastLessonScanResults = Stored(getAllLessonIssues)

\* C35: a startLessonScan that the background could not forward (no active
\* tab, no content script, lastError) leaves lessonScanState.screenData as it
\* was before the command.
C35_FailedStartKeepsState ==
  [][(log.op = "bgStart" /\ log'.op = "forwardStart" /\ ~log'.delivered)
       => lessonScanState'.screenData = log.had]_vars

(***************************************************************************)
(* SpecScreens: the popup showing a lesson scan screen by screen.  It was  *)
(* opened on the stored results, of a quick scan or of a lesson scan of    *)
(* two screens; the lessonScanComplete notification of that lesson scan    *)
(* may reach it while it is open.  The user opens the issue list of a      *)
(* screen, goes back to the screens, opens an issue of the list shown and  *)
(* asks for a suggestion.                                                  *)
(***************************************************************************)
LessonCompleteRequest ==
  [action |-> "lessonScanComplete",
   results |-> StoredLesson.lastLessonScanResults[1],
   screenData |-> StoredLesson.lastLessonScanScreenData[1],
   totalScreens |-> 2,
   summary |-> StoredLesson.lastLessonScanSummary[1]]

\* showScreenIssues(screen), the click handler of an entry of the screens list
showScreenIssues(screen) ==
  /\ gateway.popup.viewMode # "screen-detail"
  /\ gateway' = [gateway EXCEPT
       !.popup = [@ EXCEPT !.currentResults = screen.issues, !.viewMode = "screen-detail"]]
  /\ log' = [op |-> "showScreenIssues"]
  /\ UNCHANGED <<pageVars, now, sessionVars, detectorVars, scansPending, events, cmdVars,
                 bgVars, stopRun, viaBackground, norm, pageScan, injection, burst>>

\* the click handler of the button "Back to all screens"
BackToAllScreens ==
  /\ gateway.popup.viewMode = "screen-detail"
  /\ gateway' = [gateway EXCEPT !.popup = [@ EXCEPT !.viewMode = "lesson"]]
  /\ log' = [op |-> "backToAllScreens"]
  /\ UNCHANGED <<pageVars, now, sessionVars, detectorVars, scansPending, events, cmdVars,
                 bgVars, stopRun, viaBackground, norm, pageScan, injection, burst>>

\* the click handler of an entry of the issue list that renderIssuesList
\* rendered: of the quick scan, or of the screen that was opened
ShowListedIssue ==
  /\ \/ gateway.popup.viewMode = "screen-detail"
     \/ gateway.popup.viewMode = "quick" /\ gateway.popup.lessonScanData = << >>
  /\ \E i \in 1..Len(gateway.popup.currentResults) :
       showIssueDetail(gateway.popup.currentResults[i])

InitScreens ==
  /\ InitPage
  /\ InitContent
  /\ events = << LessonCompleteRequest >>
  /\ pcStart = "idle"
  /\ pcStop = "idle"
  /\ startOk = FALSE
  /\ lessonScanState = [isActive |-> FALSE, startTime |-> 0, currentScreen |-> 2,
                        screenData |-> StoredLesson.lastLessonScanScreenData[1]]
  /\ stopRun = NoRun
  /\ log = [op |-> "init"]
  /\ viaBackground = TRUE
  /\ norm = << >>
  /\ pageScan = << >>
  /\ injection = << >>
  /\ \E quick \in {Unset, Stored(<< QuickIssue >>)} :
       /\ storage = [StoredLesson EXCEPT !.lastQuickScanResults = quick]
       /\ gateway = [popup |-> PopupLoaded(quick, StoredLesson), calls |-> << >>,
                     analyses |-> << >>]

NextScreens ==
  \/ PopupLessonScanComplete
  \/ \E i \in 1..Len(gateway.popup.lessonScanData) :
       showScreenIssues(gateway.popup.lessonScanData[i])
  \/ BackToAllScreens
  \/ ShowListedIssue
  \/ ClickFetchAiSuggestion
  \/ \E k \in 1..MaxCalls, outcome \in BackendOutcomes : BackgroundFetchEnds(k, outcome)

SpecScreens == InitScreens /\ [][NextScreens]_vars

\* C36: while the popup shows the issue list of a screen of a lesson scan,
\* no step changes what is stored under lastQuickScanResults.
C36_LessonSuggestionKeepsQuickResults ==
  [][gateway.popup.viewMode = "screen-detail"
       => storage'.lastQuickScanResults = storage.lastQuickScanResults]_vars

(***************************************************************************)
(* SpecInject: the injection of the content script into the tab            *)
(* (background.js, 282-372 and 618-651).  ensureContentScriptInjected runs *)
(* for the tab-updated listener, one second after a page load completed,   *)
(* and for a popup command that forwardToContentScript forwards; every     *)
(* await of it is a step.  injection.scripts counts the executions of      *)
(* src/content.js in the document the tab shows.                           *)
(***************************************************************************)
Callers == {"tabUpdated", "forward"}

NoInjection == [scripts |-> 0, loads |-> 0, pc |-> [c \in Callers |-> "idle"]]

injectionFrame ==
  <<href, docTitle, now, sessionVars, detectorVars, scansPending, events, cmdVars, bgVars,
    stopRun, viaBackground, norm, gateway, pageScan, burst>>

\* chrome.tabs.onUpdated with status 'complete': the tab shows a new document,
\* without axe and without content script, and the listener sets its timer
TabComplete ==
  /\ injection.loads < MaxLoads
  /\ injection.pc["tabUpdated"] = "idle"
  /\ injection' = [injection EXCEPT !.scripts = 0, !.loads = @ + 1,
                                    !.pc["tabUpdated"] = "timer"]
  /\ axeLoaded' = FALSE
  /\ log' = [op |-> "tabComplete"]
  /\ UNCHANGED injectionFrame

\* the timer of the listener fires: ensureContentScriptInjected is called
TabUpdatedTimer ==
  /\ injection.pc["tabUpdated"] = "timer"
  /\ injection' = [injection EXCEPT !.pc["tabUpdated"] = "ping"]
  /\ log' = [op |-> "tabUpdatedTimer"]
  /\ UNCHANGED <<axeLoaded, injectionFrame>>

\* forwardToContentScript up to the call of ensureContentScriptInjected; without
\* an active tab it answers success: false
ForwardCommand(tab) ==
  /\ injection.pc["forward"] = "idle"
  /\ injection.loads >= 1
  /\ injection' = [injection EXCEPT !.pc["forward"] = IF tab THEN "ping" ELSE "idle"]
  /\ log' = [op |-> "forwardCommand", tab |-> tab]
  /\ UNCHANGED <<axeLoaded, injectionFrame>>

\* ensureContentScriptInjected, the first ping: a content script in the
\* document answers pong; without one sendMessage rejects
EnsurePing(c) ==
  /\ injection.pc[c] = "ping"
  /\ injection' = [injection EXCEPT
       !.pc[c] = IF injection.scripts >= 1 THEN "injected" ELSE "axe"]
  /\ log' = [op |-> "ensurePing", caller |-> c, pong |-> injection.scripts >= 1]
  /\ UNCHANGED <<axeLoaded, injectionFrame>>

\* chrome.tabs.get and chrome.scripting.executeScript of axe.min.js
EnsureInjectAxe(c, ok) ==
  /\ injection.pc[c] = "axe"
  /\ injection' = [injection EXCEPT !.pc[c] = IF ok THEN "content" ELSE "failed"]
  /\ axeLoaded' = (axeLoaded \/ ok)
  /\ log' = [op |-> "ensureInjectAxe", caller |-> c, ok |-> ok]
  /\ UNCHANGED injectionFrame

\* chrome.scripting.executeScript of src/content.js
EnsureInjectContent(c, ok) ==
  /\ injection.pc[c] = "content"
  /\ injection.scripts < MaxInjections
  /\ injection' = [injection EXCEPT
       !.scripts = IF ok THEN @ + 1 ELSE @,
       !.pc[c] = IF ok THEN "wait" ELSE "failed"]
  /\ log' = [op |-> "ensureInjectContent", caller |-> c, ok |-> ok]
  /\ UNCHANGED <<axeLoaded, injectionFrame>>

\* the 500 ms pause and the verifying ping
EnsureVerify(c) ==
  /\ injection.pc[c] = "wait"
  /\ injection' = [injection EXCEPT
       !.pc[c] = IF injection.scripts >= 1 THEN "injected" ELSE "failed"]
  /\ log' = [op |-> "ensureVerify", caller |-> c, pong |-> injection.scripts >= 1]
  /\ UNCHANGED <<axeLoaded, injectionFrame>>

\* ensureContentScriptInjected returned: the listener sends lessonScanContext
\* when a lesson scan is active, forwardToContentScript sends the command or
\* answers success: false
EnsureReturns(c) ==
  /\ injection.pc[c] \in {"injected", "failed"}
  /\ injection' = [injection EXCEPT !.pc[c] = "idle"]
  /\ log' = [op |-> "ensureReturns", caller |-> c, injected |-> injection.pc[c] = "injected",
             lessonScanContext |-> c = "tabUpdated" /\ lessonScanState.isActive]
  /\ UNCHANGED <<axeLoaded, injectionFrame>>

InitInject ==
  /\ href = "u1"
  /\ docTitle = "t1"
  /\ axeLoaded = FALSE
  /\ now = 0
  /\ InitContent
  /\ InitBackground
  /\ viaBackground = TRUE
  /\ norm = << >>
  /\ gateway = << >>
  /\ pageScan = << >>
  /\ injection = NoInjection

NextInject ==
  \/ TabComplete
  \/ TabUpdatedTimer
  \/ \E tab \in BOOLEAN : ForwardCommand(tab)
  \/ \E c \in Callers : EnsurePing(c)
  \/ \E c \in Callers, ok \in BOOLEAN : EnsureInjectAxe(c, ok)
  \/ \E c \in Callers, ok \in BOOLEAN : EnsureInjectContent(c, ok)
  \/ \E c \in Callers : EnsureVerify(c)
  \/ \E c \in Callers : EnsureReturns(c)

SpecInject == InitInject /\ [][NextInject]_vars

\* C37: the document the tab shows had src/content.js executed at most once.
C37_InjectedAtMostOnce ==
  injection.scripts <= 1

(***************************************************************************)
(* SpecReload: lesson scans through the background in a tab that reloads.  *)
(* A reload replaces the document: the content script and its state are    *)
(* gone, and the tab-updated listener injects it again and, during an      *)
(* active scan, sends it lessonScanContext, an action that the listener of *)
(* the content script (report-generator.js, 478-522) answers with          *)
(* 'Unknown action'.  The tab reloads between commands.                    *)
(***************************************************************************)
LoadedTab == [NoInjection EXCEPT !.scripts = 1, !.loads = 1]

\* the tab reloads: a new document, and chrome.tabs.onUpdated once it is
\* complete
TabReloads ==
  /\ pcStart = "idle" /\ pcStop = "idle"
  /\ injection.loads < MaxLoads
  /\ injection.pc["tabUpdated"] = "idle"
  /\ injection' = [injection EXCEPT !.scripts = 0, !.loads = @ + 1,
                                    !.pc["tabUpdated"] = "timer"]
  /\ axeLoaded' = FALSE
  /\ lessonScanActive' = FALSE
  /\ currentScreen' = 1
  /\ screenData' = << >>
  /\ lastUrl' = href
  /\ lastTitle' = docTitle
  /\ screenChangeTimeout' = NoTimer
  /\ observers' = 0
  /\ scansPending' = EmptyBag
  /\ burst' = {}
  /\ stopRun' = NoRun
  /\ log' = [op |-> "tabReloads", wasActive |-> lessonScanActive]
  /\ UNCHANGED <<href, docTitle, now, sessionNo, events, cmdVars, bgVars, viaBackground,
                 norm, gateway, pageScan>>

\* forwardToContentScript of a command finds no content script and injects it
ForwardInjects ==
  /\ pcStart = "forwarding" \/ pcStop = "forwarding"
  /\ injection.scripts = 0
  /\ injection.pc["tabUpdated"] \notin {"axe", "content"}
  /\ injection' = [injection EXCEPT !.scripts = 1]
  /\ axeLoaded' = TRUE
  /\ log' = [op |-> "forwardInjects"]
  /\ UNCHANGED injectionFrame

\* forwardToContentScript delivers a command to the content script in the tab
ForwardStartOnTab(delivered) ==
  /\ delivered => injection.scripts >= 1
  /\ ForwardStart(delivered)

ForwardStopOnTab(delivered) ==
  /\ delivered => injection.scripts >= 1
  /\ ForwardStop(delivered)

InitReload ==
  /\ InitPage
  /\ InitContent
  /\ InitBackground
  /\ viaBackground = TRUE
  /\ norm = << >>
  /\ gateway = << >>
  /\ pageScan = << >>
  /\ injection = LoadedTab

NextReload ==
  \/ TabReloads
  \/ TabUpdatedTimer
  \/ EnsurePing("tabUpdated")
  \/ \E ok \in BOOLEAN : EnsureInjectAxe("tabUpdated", ok)
  \/ \E ok \in BOOLEAN : EnsureInjectContent("tabUpdated", ok)
  \/ EnsureVerify("tabUpdated")
  \/ EnsureReturns("tabUpdated")
  \/ BgStartLessonScan
  \/ ForwardInjects
  \/ \E delivered \in BOOLEAN : ForwardStartOnTab(delivered)
  \/ ContentStartLessonScan
  \/ \E scan \in BagToSet(scansPending), outcome \in BgOutcomes : AxeCallback(scan, outcome)
  \/ BgStartResponse
  \/ BgStopLessonScan
  \/ \E delivered \in BOOLEAN : ForwardStopOnTab(delivered)
  \/ ContentStopLessonScan
  \/ BgStopResponse
  \/ BgStopFinish
  \/ BgReceive

SpecReload == InitReload /\ [][NextReload]_vars

\* C38: when the background holds a lesson scan as active, no start or stop
\* command is under way and the tab-updated listener has run to its end with a
\* content script in the tab, that content script is scanning the lesson.
C38_ActiveInBothOrNeither ==
  (/\ lessonScanState.isActive
   /\ pcStart = "idle" /\ pcStop = "idle"
   /\ injection.pc["tabUpdated"] = "idle" /\ injection.scripts >= 1)
    => lessonScanActive

(***************************************************************************)
(* SpecQuick: quick scans of the page (report-generator.js, 525-571) while *)
(* lesson scans come and go.  The page is that of SpecStore; the audit of  *)
(* a quick scan is pending in scansPending like those of the lesson scan.  *)
(***************************************************************************)
SessionState ==
  [lessonScanActive |-> lessonScanActive, currentScreen |-> currentScreen,
   screenData |-> screenData]

ScanProgress(percent) == [action |-> "scanProgress", progress |-> percent]

QuickCompleteMsg(issues) ==
  [action |-> "quickScanComplete", results |-> issues, screenInfo |-> getScreenInfo]

\* handleQuickScan up to the return of window.axe.run; without window.axe it
\* throws and answers success: false
handleQuickScan ==
  /\ IF axeLoaded
       THEN /\ NumPending < MaxPending
            /\ scansPending' = scansPending (+) SetToBag({Scan("quick", sessionNo)})
            /\ log' = [op |-> "quickScan", before |-> SessionState,
                       sent |-> << ScanProgress(10), ScanProgress(30) >>,
                       responded |-> FALSE, success |-> FALSE]
       ELSE /\ UNCHANGED scansPending
            /\ log' = [op |-> "quickScan", before |-> SessionState,
                       sent |-> << ScanProgress(10) >>,
                       responded |-> TRUE, success |-> FALSE]
  /\ stopRun' = NoRun
  /\ UNCHANGED <<pageVars, now, sessionVars, detectorVars, events, cmdVars, bgVars,
                 fixedVars, burst>>

\* a callback of the quick audit that stores its result as the audit of a
\* lesson screen does
QuickAxeCallbackStoring(scan, outcome) ==
  /\ scan \in BagToSet(scansPending)
  /\ scan.kind = "quick"
  /\ scansPending' = scansPending (-) SetToBag({scan})
  /\ LET issues == processScanResults(outcome.violations, getScreenInfo, TRUE, now) IN
       /\ screenData' = IF outcome.err THEN screenData
                        ELSE StoreScreen(screenData, ScreenRecord(getScreenInfo, issues))
       /\ log' = [op |-> "quickAxeCallback", before |-> SessionState,
                  sent |-> IF outcome.err THEN << >>
                           ELSE << ScanProgress(80), ScanProgress(100),
                                   QuickCompleteMsg(issues) >>,
                  responded |-> TRUE, success |-> ~outcome.err]
  /\ stopRun' = NoRun
  /\ UNCHANGED <<pageVars, now, lessonScanActive, currentScreen, sessionNo, detectorVars,
                 events, cmdVars, bgVars, fixedVars, burst>>

\* the callback of window.axe.run in handleQuickScan
QuickAxeCallback(scan, outcome) ==
  /\ scan \in BagToSet(scansPending)
  /\ scan.kind = "quick"
  /\ scansPending' = scansPending (-) SetToBag({scan})
  /\ LET issues == processScanResults(outcome.violations, getScreenInfo, TRUE, now) IN
       log' = [op |-> "quickAxeCallback", before |-> SessionState,
               sent |-> IF outcome.err THEN << >>
                        ELSE << ScanProgress(80), ScanProgress(100),
                                QuickCompleteMsg(issues) >>,
               responded |-> TRUE, success |-> ~outcome.err]
  /\ stopRun' = NoRun
  /\ UNCHANGED <<pageVars, now, sessionVars, detectorVars, events, cmdVars, bgVars,
                 fixedVars, burst>>

\* the callback of an audit of the lesson scan
LessonAxeCallback(scan, outcome) ==
  /\ scan.kind # "quick"
  /\ AxeCallback(scan, outcome)

NextQuick ==
  \/ \E t \in Titles : TitleMutation(t)
  \/ BgTick
  \/ detectScreenChange
  \/ ContentStartLessonScan
  \/ \E scan \in BagToSet(scansPending), outcome \in AxeOutcomes :
       LessonAxeCallback(scan, outcome)
  \/ ContentStopLessonScan
  \/ handleQuickScan
  \/ \E scan \in BagToSet(scansPending), outcome \in AxeOutcomes :
       QuickAxeCallback(scan, outcome)

SpecQuick == Init /\ [][NextQuick]_vars

\* C39: a step of handleQuickScan, its start or the callback of its audit,
\* with or without a result, leaves lessonScanActive, currentScreen and
\* screenData as they were.
C39_QuickScanKeepsSession ==
  log.op \in {"quickScan", "quickAxeCallback"} => SessionState = log.before

\* a quick scan that found issues ended during an active lesson scan that is
\* on screen 2 and has a record
C39_Witness ==
  /\ log.op = "quickAxeCallback" /\ log.success
  /\ Len(log.sent[3].results) > 0
  /\ lessonScanActive
  /\ currentScreen = 2
  /\ screenData # << >>

====
